---- MODULE Spec2Model ----
(***************************************************************************)
(* A model of the reverse-mode transform of myia/grad.py: the Grad class   *)
(* (phi, rho, accum_multi, transform), the runtime helpers it relies on    *)
(* (fill, mapadd, J, Jinv, the GRAD macro, the primitive gradient          *)
(* wrappers built by rgrad.mkgrad) and an evaluator for the emitted IR.    *)
(***************************************************************************)
EXTENDS Integers, Sequences, FiniteSets, TLC

(***************************************************************************)
(* Bounds of the model.                                                    *)
(***************************************************************************)
\* Largest number of bindings in the body of an input Lambda.
MaxBind == 2
\* Each parameter i of an evaluated function ranges over i+1 .. i+1+ArgSpan.
ArgSpan == 1

\* Longest tuple of the values given to mapadd, J and Jinv.
MaxLen == 2
\* Largest number of gradients handed to GRAD.
MaxGrads == 3

\* Names of the parameters and of the let-bound variables of input Lambdas.
ParamNames == <<"x", "y", "z">>
LetNames == <<"t1", "t2", "t3", "t4">>
PairNames == <<"u1", "u2", "u3", "u4">>

(***************************************************************************)
(* AST nodes (myia.ast): one record shape for Symbol, Value, Apply, Tuple  *)
(* and Closure.  A Value keeps its literal in ver; the ZERO keyword is the *)
(* Value labelled "ZERO".                                                  *)
(***************************************************************************)
Node(t, label, ns, ver, rel, sub) ==
    [t |-> t, label |-> label, ns |-> ns, ver |-> ver, rel |-> rel, sub |-> sub]

Symbol(label, ns, ver, rel) == Node("Symbol", label, ns, ver, rel, <<>>)

Value(c) == Node("Value", "", "", c, "", <<>>)

ValueZERO == Node("Value", "ZERO", "", 0, "", <<>>)

Apply(fn, args) == Node("Apply", "", "", 0, "", <<fn>> \o args)

Tuple(values) == Node("Tuple", "", "", 0, "", values)

Closure(fn, args) == Node("Closure", "", "", 0, "", <<fn>> \o args)

\* builtins.<name>: a symbol of the builtin namespace.
bsym(name) == Symbol(name, "builtin", 0, "")

\* Local variable of an input Lambda.
lsym(name) == Symbol(name, "local", 0, "")

IsGlobal(v) == v.ns \in {"global", "builtin"}

\* The arguments of an Apply or Closure node (sub without the function).
ArgsOf(node) == SubSeq(node.sub, 2, Len(node.sub))

\* The operands A-normal form allows: a Symbol or a Value.
IsLeaf(node) == node.t \in {"Symbol", "Value"}

EmptyMap == [k \in {} |-> k]

\* The element of a singleton set.  { e : r \in {call} } evaluates the call
\* once and names its result r in e.
The(S) == CHOOSE v \in S : TRUE

(***************************************************************************)
(* GenSym: fresh(base, relation) returns the symbol whose version is one   *)
(* more than the versions handed out so far for (base.label, relation).    *)
(* G is the state of a Grad object; G.gen is the counter map.              *)
(***************************************************************************)
gensym(G, base, rel) ==
    LET key == <<base.label, rel>>
        n == IF key \in DOMAIN G.gen THEN G.gen[key] + 1 ELSE 1
    IN [G |-> [G EXCEPT !.gen = (key :> n) @@ G.gen],
        r |-> Symbol(base.label, "local", n, rel)]

(***************************************************************************)
(* Grad helpers.  Each takes the Grad object G and returns [G, r]: the     *)
(* object after the call and the value returned.                           *)
(***************************************************************************)
\* new_sensitivity_var that reuses the first SENS symbol of v.
new_sensitivity_var_stale(G, v) ==
    LET s == Symbol(v.label, "local", 1, "SENS")
    IN [G |-> [G EXCEPT !.sensitivity_map = (v :> s) @@ G.sensitivity_map],
        r |-> s]

\* new_sensitivity_var: a fresh SENS symbol, recorded as v's latest one.
new_sensitivity_var(G, v) ==
    The({ [G |-> [s.G EXCEPT !.sensitivity_map = (v :> s.r) @@ s.G.sensitivity_map],
           r |-> s.r]
          : s \in {gensym(G, v, "SENS")} })

\* tagged_var on a Symbol: gensym is called on every use, setdefault keeps
\* the first symbol.
tagged_sym(G, v) ==
    The({ LET m == IF v \in DOMAIN G.tagged_map THEN G.tagged_map
                   ELSE (v :> s.r) @@ G.tagged_map
          IN [G |-> [s.G EXCEPT !.tagged_map = m], r |-> m[v]]
          : s \in {gensym(G, v, "JTAG")} })

RECURSIVE maptup_tagged(_, _, _, _)
maptup_tagged(G, vs, i, acc) ==
    IF i > Len(vs) THEN [G |-> G, r |-> Tuple(acc)]
    ELSE The({ maptup_tagged(s.G, vs, i + 1, Append(acc, s.r))
               : s \in {tagged_sym(G, vs[i])} })

tagged_var(G, v) ==
    IF v.t = "Symbol" THEN tagged_sym(G, v)
    ELSE maptup_tagged(G, v.sub, 1, <<>>)

\* tagged_expr that lifts a global through its primal: J(Jinv(J(g))).
tagged_expr_deep(G, v) ==
    IF v.t = "Value" THEN [G |-> G, r |-> v]
    ELSE IF IsGlobal(v)
    THEN [G |-> G, r |-> Apply(bsym("J"), <<Apply(bsym("Jinv"), <<Apply(bsym("J"), <<v>>)>>)>>)]
    ELSE tagged_var(G, v)

\* tagged_expr: a Value is itself, a global symbol g becomes J(g), a local
\* symbol its tagged variable.
tagged_expr(G, v) ==
    IF v.t = "Value" THEN [G |-> G, r |-> v]
    ELSE IF IsGlobal(v) THEN [G |-> G, r |-> Apply(bsym("J"), <<v>>)]
    ELSE tagged_var(G, v)

RECURSIVE tagged_exprs(_, _, _, _)
tagged_exprs(G, vs, i, acc) ==
    IF i > Len(vs) THEN [G |-> G, r |-> acc, ok |-> TRUE]
    ELSE IF ~IsLeaf(vs[i]) THEN [G |-> G, r |-> acc, ok |-> FALSE]
    ELSE The({ tagged_exprs(s.G, vs, i + 1, Append(acc, s.r))
               : s \in {tagged_expr(G, vs[i])} })

\* sensitivity_value: the current sensitivity symbol, or ZERO when there is
\* none; a tuple whose members are all ZERO is summarised as ZERO.
sensitivity_sym(G, v) ==
    IF v \in DOMAIN G.sensitivity_map THEN G.sensitivity_map[v] ELSE ValueZERO

sensitivity_value(G, v) ==
    IF v.t = "Symbol" THEN sensitivity_sym(G, v)
    ELSE LET vals == [i \in 1..Len(v.sub) |-> sensitivity_sym(G, v.sub[i])]
         IN IF \A i \in 1..Len(vals) : vals[i] = ValueZERO
            THEN ValueZERO ELSE Tuple(vals)

\* bprop_variables[k] = True on an ordered dictionary.
OrderedAdd(keys, k) ==
    IF \E i \in 1..Len(keys) : keys[i] = k THEN keys ELSE Append(keys, k)

\* zero_init: emit  SENS v = zeros_like(Jinv(JTAG v))  into zeros.
\* zero_init that does not capture the tagged variable it reads.
zero_init_uncaptured(G, var) ==
    The({ The({
        [G |-> [tg.G EXCEPT
                  !.zeros = Append(tg.G.zeros,
                      <<nv.r, Apply(bsym("zeros_like"),
                                    <<Apply(bsym("Jinv"), <<tg.r>>)>>)>>)],
         r |-> nv.r]
        : tg \in {tagged_var(nv.G, var)} })
        : nv \in {new_sensitivity_var(G, var)} })

zero_init(G, var) ==
    The({ The({
        [G |-> [tg.G EXCEPT
                  !.zeros = Append(tg.G.zeros,
                      <<nv.r, Apply(bsym("zeros_like"),
                                    <<Apply(bsym("Jinv"), <<tg.r>>)>>)>>),
                  !.bprop_variables = OrderedAdd(tg.G.bprop_variables, tg.r)],
         r |-> nv.r]
        : tg \in {tagged_var(nv.G, var)} })
        : nv \in {new_sensitivity_var(G, var)} })

conformant_sym(G, v) ==
    IF v \in DOMAIN G.sensitivity_map
    THEN [G |-> G, r |-> G.sensitivity_map[v]]
    ELSE zero_init(G, v)

RECURSIVE maptup_conformant(_, _, _, _)
maptup_conformant(G, vs, i, acc) ==
    IF i > Len(vs) THEN [G |-> G, r |-> Tuple(acc)]
    ELSE The({ maptup_conformant(s.G, vs, i + 1, Append(acc, s.r))
               : s \in {conformant_sym(G, vs[i])} })

conformant_sensitivity_value(G, v) ==
    IF v.t = "Symbol" THEN conformant_sym(G, v)
    ELSE maptup_conformant(G, v.sub, 1, <<>>)

\* backpropagator_var that hands out a new symbol on every use.
backpropagator_var_fresh(G, v) ==
    The({ [G |-> [s.G EXCEPT !.backpropagator_map = (v :> s.r) @@ s.G.backpropagator_map],
           r |-> s.r]
          : s \in {IF v.t = "Tuple"
                   THEN The({ gensym(t.G, t.r, "BPROP_CLOS")
                              : t \in {gensym(G, Symbol("TMP_BPROP", "local", 0, ""), "")} })
                   ELSE gensym(G, v, "BPROP_CLOS")} })

\* backpropagator_var: gensym is called on every use (twice for a tuple
\* LHS), setdefault keeps the first symbol.
backpropagator_var(G, v) ==
    The({ LET m == IF v \in DOMAIN G.backpropagator_map THEN G.backpropagator_map
                   ELSE (v :> s.r) @@ G.backpropagator_map
          IN [G |-> [s.G EXCEPT !.backpropagator_map = m], r |-> m[v]]
          : s \in {IF v.t = "Tuple"
                   THEN The({ gensym(t.G, t.r, "BPROP_CLOS")
                              : t \in {gensym(G, Symbol("TMP_BPROP", "local", 0, ""), "")} })
                   ELSE gensym(G, v, "BPROP_CLOS")} })

(***************************************************************************)
(* Lambdas and the global environment.  A Lambda is a record; isLet tells  *)
(* whether its body is a Let (bindings, body) or a bare expression.  The   *)
(* environment E holds global_env and root_globals (symbol -> Lambda), the *)
(* counters of ParseEnv.gen and the per-primitive gradient caches.         *)
(***************************************************************************)
Lambda(args, isLet, bindings, body, ref, primal) ==
    [args |-> args, isLet |-> isLet, bindings |-> bindings, body |-> body,
     ref |-> ref, primal |-> primal]

NoSymbol == Symbol("", "null", 0, "")

\* ParseEnv.gen: a fresh global symbol for (base.label, relation).
env_gen(E, base, rel) ==
    LET key == <<base.label, rel>>
        n == IF key \in DOMAIN E.gen THEN E.gen[key] + 1 ELSE 1
    IN [E |-> [E EXCEPT !.gen = (key :> n) @@ E.gen],
        r |-> Symbol(base.label, "global", n, rel)]

\* prim.argnames of the primitives the model uses.
argnames(prim) ==
    IF prim \in {"add", "multiply", "mapadd"} THEN <<"x", "y">> ELSE <<"x">>

\* The primitives that have a gradient declared with @rgrad.
HasGrad(prim) ==
    prim \in {"add", "multiply", "mapadd", "zeros_like", "J", "Jinv", "identity"}

(***************************************************************************)
(* macro_grad_for(nargs_closure): GRAD(g1, ..., gn) is the Tuple node      *)
(* ((g1, ..., gk), g(k+1), ..., gn).                                       *)
(***************************************************************************)
SeqTake(s, k) == SubSeq(s, 1, IF k < Len(s) THEN k ELSE Len(s))

SeqDrop(s, k) == SubSeq(s, (IF k < Len(s) THEN k ELSE Len(s)) + 1, Len(s))

\* GRAD that leaves the last gradient out of the result.
macro_grad_short(nargs_closure, args) ==
    Tuple(<<Tuple(SeqTake(args, nargs_closure))>>
          \o SubSeq(args, nargs_closure + 1, Len(args) - 1))

macro_grad(nargs_closure, args) ==
    Tuple(<<Tuple(SeqTake(args, nargs_closure))>> \o SeqDrop(args, nargs_closure))

(***************************************************************************)
(* The backpropagators declared with @rgrad: the expressions handed to     *)
(* GRAD by gadd, gmultiply, gmapadd, gzeros_like, gJ, gJinv and gidentity. *)
(* The parameters are the primitive's argnames followed by the output      *)
(* sensitivity d.                                                          *)
(***************************************************************************)
rgrad_params(prim) ==
    [i \in 1..Len(argnames(prim)) |-> lsym(argnames(prim)[i])] \o <<lsym("d")>>

rgrad_exprs(prim) ==
    IF prim = "add" THEN <<lsym("d"), lsym("d")>>
    ELSE IF prim = "multiply"
    THEN <<Apply(bsym("multiply"), <<lsym("d"), lsym("y")>>),
           Apply(bsym("multiply"), <<lsym("d"), lsym("x")>>)>>
    ELSE IF prim = "mapadd" THEN <<lsym("d"), lsym("d")>>
    ELSE IF prim = "zeros_like" THEN <<Apply(bsym("zeros_like"), <<lsym("x")>>)>>
    ELSE IF prim = "J" THEN <<Apply(bsym("Jinv"), <<lsym("d")>>)>>
    ELSE IF prim = "Jinv" THEN <<Apply(bsym("J"), <<lsym("d")>>)>>
    ELSE <<lsym("d")>>

(***************************************************************************)
(* rgrad.mkgrad(nargs_closure) for primitive sym: returns the cached       *)
(* wrapper, or builds                                                      *)
(*   lambda args: (J(sym(Jinv(a1), ...)), Closure(BPROP sym, args))        *)
(* registers it under a fresh JTAG symbol and caches it.                   *)
(***************************************************************************)
\* mkgrad without its cache: it compiles anew on every call.
mkgrad_uncached(E, sym, nargs_closure) ==
    The({
      LET rsym == Symbol(sym.label, "builtin", nargs_closure + 1, "BPROP")
          ast == Lambda(<<>>, FALSE, <<>>, Tuple(<<>>), g.r, sym)
      IN [E |-> [g.E EXCEPT
                   !.global_env = (g.r :> ast) @@ g.E.global_env,
                   !.root_globals = (rsym :> ast) @@ ((g.r :> ast) @@ g.E.root_globals)],
          r |-> g.r]
      : g \in {env_gen(E, sym, "JTAG")} })

mkgrad(E, sym, nargs_closure) ==
    LET ck == <<sym.label, nargs_closure>>
    IN IF ck \in DOMAIN E.cache THEN [E |-> E, r |-> E.cache[ck]]
       ELSE
        The({
          LET rsym == Symbol(sym.label, "builtin", nargs_closure + 1, "BPROP")
              names == argnames(sym.label)
              args == [i \in 1..Len(names) |-> Symbol(names[i], "local", 1, "")]
              forward == Apply(bsym("J"),
                           <<Apply(sym, [i \in 1..Len(args) |->
                                           Apply(bsym("Jinv"), <<args[i]>>)])>>)
              backward == Closure(rsym, args)
              ast == Lambda(args, FALSE, <<>>, Tuple(<<forward, backward>>), g.r, sym)
              fn == Lambda(rgrad_params(sym.label), FALSE, <<>>,
                           macro_grad(nargs_closure, rgrad_exprs(sym.label)),
                           rsym, NoSymbol)
          IN [E |-> [g.E EXCEPT
                       !.global_env = (g.r :> ast) @@ g.E.global_env,
                       !.root_globals = (rsym :> fn) @@ ((g.r :> ast) @@ g.E.root_globals),
                       !.cache = (ck :> g.r) @@ g.E.cache],
              r |-> g.r]
          : g \in {env_gen(E, sym, "JTAG")} })

(***************************************************************************)
(* Grad.accum_multi and Grad.accum_single.                                 *)
(***************************************************************************)
NullSym == Symbol("NULLSYM", "null", 0, "")

\* The loop of accum_multi with the sensitivity of a repeated variable as
\* the first operand of mapadd and the temporary as the second.
RECURSIVE accum_loop_sens_first(_, _, _, _, _, _, _)
accum_loop_sens_first(G, vars, i, seen, lhs_vars, rhs_vars, bindings) ==
    IF i > Len(vars)
    THEN [G |-> G, lhs_vars |-> lhs_vars, rhs_vars |-> rhs_vars, bindings |-> bindings]
    ELSE
      LET var == vars[i] IN
      IF var.t = "Value"
      THEN accum_loop_sens_first(G, vars, i + 1, seen, Append(lhs_vars, NullSym),
                                 Append(rhs_vars, ValueZERO), bindings)
      ELSE IF var \in seen
      THEN The({ The({ The({
             accum_loop_sens_first(lhs.G, vars, i + 1, seen, Append(lhs_vars, g.r),
                        Append(rhs_vars, ValueZERO),
                        Append(bindings,
                               <<lhs.r, Apply(bsym("mapadd"), <<c.r, g.r>>)>>))
             : lhs \in {new_sensitivity_var(c.G, var)} })
             : c \in {conformant_sensitivity_value(g.G, var)} })
             : g \in {gensym(G, var, "TMP_SENS")} })
      ELSE The({ The({
             accum_loop_sens_first(lhs.G, vars, i + 1, seen \cup {var},
                        Append(lhs_vars, lhs.r), Append(rhs_vars, rhs), bindings)
             : lhs \in {new_sensitivity_var(G, var)} })
             : rhs \in {sensitivity_value(G, var)} })

RECURSIVE accum_loop(_, _, _, _, _, _, _)
accum_loop(G, vars, i, seen, lhs_vars, rhs_vars, bindings) ==
    IF i > Len(vars)
    THEN [G |-> G, lhs_vars |-> lhs_vars, rhs_vars |-> rhs_vars, bindings |-> bindings]
    ELSE
      LET var == vars[i] IN
      IF var.t = "Value"
      THEN accum_loop(G, vars, i + 1, seen, Append(lhs_vars, NullSym),
                      Append(rhs_vars, ValueZERO), bindings)
      ELSE IF var \in seen
      THEN The({ The({ The({
             accum_loop(lhs.G, vars, i + 1, seen, Append(lhs_vars, g.r),
                        Append(rhs_vars, ValueZERO),
                        Append(bindings,
                               <<lhs.r, Apply(bsym("mapadd"), <<g.r, c.r>>)>>))
             : lhs \in {new_sensitivity_var(c.G, var)} })
             : c \in {conformant_sensitivity_value(g.G, var)} })
             : g \in {gensym(G, var, "TMP_SENS")} })
      ELSE The({ The({
             accum_loop(lhs.G, vars, i + 1, seen \cup {var},
                        Append(lhs_vars, lhs.r), Append(rhs_vars, rhs), bindings)
             : lhs \in {new_sensitivity_var(G, var)} })
             : rhs \in {sensitivity_value(G, var)} })

\* accum_multi with the operands of mapadd exchanged.
accum_multi_swapped(G, vars, value) ==
    The({ LET new_value ==
                IF \A i \in 1..Len(a.rhs_vars) : a.rhs_vars[i] = ValueZERO
                THEN value
                ELSE Apply(bsym("mapadd"), <<value, Tuple(a.rhs_vars)>>)
          IN [G |-> a.G, r |-> <<<<Tuple(a.lhs_vars), new_value>>>> \o a.bindings]
          : a \in {accum_loop(G, vars, 1, {}, <<>>, <<>>, <<>>)} })

\* accum_multi without the bindings that merge repeated variables.
accum_multi_lossy(G, vars, value) ==
    The({ LET new_value ==
                IF \A i \in 1..Len(a.rhs_vars) : a.rhs_vars[i] = ValueZERO
                THEN value
                ELSE Apply(bsym("mapadd"), <<Tuple(a.rhs_vars), value>>)
          IN [G |-> a.G, r |-> <<<<Tuple(a.lhs_vars), new_value>>>>]
          : a \in {accum_loop(G, vars, 1, {}, <<>>, <<>>, <<>>)} })

accum_multi(G, vars, value) ==
    The({ LET new_value ==
                IF \A i \in 1..Len(a.rhs_vars) : a.rhs_vars[i] = ValueZERO
                THEN value
                ELSE Apply(bsym("mapadd"), <<Tuple(a.rhs_vars), value>>)
          IN [G |-> a.G, r |-> <<<<Tuple(a.lhs_vars), new_value>>>> \o a.bindings]
          : a \in {accum_loop(G, vars, 1, {}, <<>>, <<>>, <<>>)} })

accum_single(G, v, value) ==
    IF v.t = "Value" THEN [G |-> G, r |-> <<>>]
    ELSE The({ The({
           IF sen = ValueZERO
           THEN [G |-> new_sen.G, r |-> <<<<new_sen.r, value>>>>]
           ELSE [G |-> new_sen.G,
                 r |-> <<<<new_sen.r, Apply(bsym("mapadd"), <<sen, value>>)>>>>]
           : new_sen \in {new_sensitivity_var(G, v)} })
           : sen \in {sensitivity_value(G, v)} })

(***************************************************************************)
(* Runtime values (myia.interpret): numbers, tuples, ZERO, None,           *)
(* PrimitiveImpl, FunctionImpl (named by the symbol its Lambda is          *)
(* registered under) and ClosureImpl (a function value and stored          *)
(* arguments).  Err stands for a raised exception.                         *)
(***************************************************************************)
Val(k, f, ns, n, rel, fk, t) ==
    [k |-> k, f |-> f, ns |-> ns, n |-> n, rel |-> rel, fk |-> fk, t |-> t]

Num(n) == Val("num", "", "", n, "", "", <<>>)

Tup(t) == Val("tup", "", "", 0, "", "", t)

ZERO == Val("ZERO", "", "", 0, "", "", <<>>)

None == Val("None", "", "", 0, "", "", <<>>)

Err == Val("err", "", "", 0, "", "", <<>>)

PrimitiveImpl(label) == Val("prim", label, "builtin", 0, "", "", <<>>)

FunctionImpl(ref) == Val("func", ref.label, ref.ns, ref.ver, ref.rel, "", <<>>)

ClosureImpl(fn, args) == Val("clos", fn.f, fn.ns, fn.n, fn.rel, fn.k, args)

\* x.fn of a ClosureImpl.
FnOf(c) == Val(c.fk, c.f, c.ns, c.n, c.rel, "", <<>>)

\* The symbol a FunctionImpl or PrimitiveImpl is known by.
RefOf(x) == Symbol(x.f, x.ns, x.n, x.rel)

IsErr(x) == x.k = "err"

AnyErr(xs) == \E i \in 1..Len(xs) : IsErr(xs[i])

(***************************************************************************)
(* evaluate(symbol, env): the value a global or builtin symbol stands for. *)
(***************************************************************************)
evaluate_sym(E, sym) ==
    IF sym \in DOMAIN E.root_globals THEN FunctionImpl(sym)
    ELSE IF sym.ns = "builtin" /\ sym.rel = "" THEN PrimitiveImpl(sym.label)
    ELSE Err

\* JX is defined with make_grad below; phi calls it for a Closure binding.
RECURSIVE JX(_, _, _)

(***************************************************************************)
(* Grad.phi: the forward bindings of one source binding.  G.env is the     *)
(* environment; a Closure binding calls JX on its function at once.        *)
(* ok is FALSE when phi raises.                                            *)
(***************************************************************************)
phi(G, var, value) ==
    IF value.t = "Symbol" THEN
        The({ The({
          [G |-> te.G, r |-> <<<<tv.r, te.r>>>>, ok |-> TRUE]
          : te \in {tagged_expr(tv.G, value)} })
          : tv \in {tagged_var(G, var)} })
    ELSE IF value.t = "Value" THEN
        The({ [G |-> tv.G, r |-> <<<<tv.r, value>>>>, ok |-> TRUE]
              : tv \in {tagged_var(G, var)} })
    ELSE IF value.t = "Tuple" THEN
        The({ The({
          IF ~te.ok THEN [G |-> te.G, r |-> <<>>, ok |-> FALSE]
          ELSE [G |-> te.G, r |-> <<<<tv.r, Tuple(te.r)>>>>, ok |-> TRUE]
          : te \in {tagged_exprs(tv.G, value.sub, 1, <<>>)} })
          : tv \in {tagged_var(G, var)} })
    ELSE IF value.t = "Apply" THEN
        The({ The({
          IF ~IsLeaf(value.sub[1]) THEN [G |-> bv.G, r |-> <<>>, ok |-> FALSE]
          ELSE The({ The({
            IF ~te.ok THEN [G |-> te.G, r |-> <<>>, ok |-> FALSE]
            ELSE [G |-> te.G,
                  r |-> <<<<Tuple(<<tv.r, bv.r>>), Apply(fn.r, te.r)>>>>,
                  ok |-> TRUE]
            : te \in {tagged_exprs(fn.G, ArgsOf(value), 1, <<>>)} })
            : fn \in {tagged_expr(bv.G, value.sub[1])} })
          : bv \in {backpropagator_var(tv.G, var)} })
          : tv \in {tagged_var(G, var)} })
    ELSE IF value.t = "Closure" THEN
        IF value.sub[1].t # "Symbol" \/ ~IsGlobal(value.sub[1])
        THEN [G |-> G, r |-> <<>>, ok |-> FALSE]
        ELSE
          The({
            IF ~te.ok \/ IsErr(evaluate_sym(te.G.env, value.sub[1]))
            THEN [G |-> te.G, r |-> <<>>, ok |-> FALSE]
            ELSE The({
              IF IsErr(jfn.r)
              THEN [G |-> [te.G EXCEPT !.env = jfn.E], r |-> <<>>, ok |-> FALSE]
              ELSE The({
                [G |-> tv.G, r |-> <<<<tv.r, Closure(RefOf(jfn.r), te.r)>>>>,
                 ok |-> TRUE]
                : tv \in {tagged_var([te.G EXCEPT !.env = jfn.E], var)} })
              : jfn \in {JX(te.G.env, evaluate_sym(te.G.env, value.sub[1]),
                            Len(ArgsOf(value)))} })
            : te \in {tagged_exprs(G, ArgsOf(value), 1, <<>>)} })
    ELSE [G |-> G, r |-> <<>>, ok |-> FALSE]

(***************************************************************************)
(* Grad.rho: the backward bindings of one source binding.                  *)
(***************************************************************************)
rho(G, var, value) ==
    IF sensitivity_value(G, var) = ValueZERO THEN [G |-> G, r |-> <<>>]
    ELSE
      The({
        IF value.t = "Symbol" THEN accum_single(sen.G, value, sen.r)
        ELSE IF value.t = "Value" THEN [G |-> sen.G, r |-> <<>>]
        ELSE IF value.t = "Tuple" THEN accum_multi(sen.G, value.sub, sen.r)
        ELSE IF value.t = "Apply" THEN
            The({ accum_multi([bprop_var.G EXCEPT
                                 !.bprop_variables =
                                     OrderedAdd(bprop_var.G.bprop_variables,
                                                bprop_var.r)],
                              value.sub, Apply(bprop_var.r, <<sen.r>>))
                  : bprop_var \in {backpropagator_var(sen.G, var)} })
        ELSE accum_multi(sen.G, ArgsOf(value), sen.r)
        : sen \in {conformant_sensitivity_value(G, var)} })

(***************************************************************************)
(* Grad.transform.  G carries the Grad object's maps and, in G.env, the    *)
(* environment.  The result holds the object after the call, the forward   *)
(* and backward binding lists, the symbols registered and ok (FALSE when   *)
(* phi raised and nothing was assembled).                                  *)
(***************************************************************************)
RECURSIVE forward_loop(_, _, _, _)
forward_loop(G, bindings, i, forward) ==
    IF i > Len(bindings) THEN [G |-> G, r |-> forward, ok |-> TRUE]
    ELSE The({ IF p.ok THEN forward_loop(p.G, bindings, i + 1, forward \o p.r)
               ELSE [G |-> p.G, r |-> forward, ok |-> FALSE]
               : p \in {phi(G, bindings[i][1], bindings[i][2])} })

\* The loop over rho taken from the first binding to the one at i.
RECURSIVE backward_loop_source_order(_, _, _, _)
backward_loop_source_order(G, bindings, i, backward) ==
    IF i < 1 THEN [G |-> G, r |-> backward]
    ELSE LET j == Len(bindings) - i + 1 IN
         The({ backward_loop_source_order(q.G, bindings, i - 1, backward \o q.r)
               : q \in {rho(G, bindings[j][1], bindings[j][2])} })

RECURSIVE backward_loop(_, _, _, _)
backward_loop(G, bindings, i, backward) ==
    IF i < 1 THEN [G |-> G, r |-> backward]
    ELSE The({ backward_loop(q.G, bindings, i - 1, backward \o q.r)
               : q \in {rho(G, bindings[i][1], bindings[i][2])} })

RECURSIVE conformant_all(_, _, _, _)
conformant_all(G, args, i, acc) ==
    IF i > Len(args) THEN [G |-> G, r |-> acc]
    ELSE The({ conformant_all(c.G, args, i + 1, Append(acc, c.r))
               : c \in {conformant_sensitivity_value(G, args[i])} })

RECURSIVE tagged_vars(_, _, _, _)
tagged_vars(G, args, i, acc) ==
    IF i > Len(args) THEN [G |-> G, r |-> acc]
    ELSE The({ tagged_vars(s.G, args, i + 1, Append(acc, s.r))
               : s \in {tagged_var(G, args[i])} })

\* The return value of the backpropagator: the first nargs_closure
\* gradients grouped, the others after them.
\* backp_ret as a pair: the ungrouped gradients are not spliced in.
backp_ret_pair(backp_all_ret, nargs_closure) ==
    Tuple(<<Tuple(SeqTake(backp_all_ret, nargs_closure)),
            Tuple(SeqDrop(backp_all_ret, nargs_closure))>>)

\* backp_ret that groups no gradient, whatever nargs_closure is.
backp_ret_ungrouped(backp_all_ret, nargs_closure) ==
    Tuple(<<Tuple(<<>>)>> \o backp_all_ret)

backp_ret_of(backp_all_ret, nargs_closure) ==
    Tuple(<<Tuple(SeqTake(backp_all_ret, nargs_closure))>>
          \o SeqDrop(backp_all_ret, nargs_closure))

transform(G0, primal, name, nargs_closure) ==
    IF primal.body.t # "Symbol"
    THEN [ok |-> FALSE, G |-> G0, forward |-> <<>>, backward |-> <<>>,
          backp_sym |-> NoSymbol, augm_sym |-> NoSymbol, out_sen |-> NoSymbol]
    ELSE
    The({
      LET args == primal.args
          G1 == IF primal.isLet THEN G0 ELSE tmp.G
          bindings == IF primal.isLet THEN primal.bindings
                      ELSE <<<<tmp.r, primal.body>>>>
          body == IF primal.isLet THEN primal.body ELSE tmp.r
      IN The({ The({
        IF ~fw.ok
        THEN [ok |-> FALSE, G |-> fw.G, forward |-> fw.r, backward |-> <<>>,
              backp_sym |-> NoSymbol, augm_sym |-> NoSymbol, out_sen |-> out_sen.r]
        ELSE
          The({ The({
            LET G2 == backp_all_ret.G
                backp_ret == backp_ret_of(backp_all_ret.r, nargs_closure)
                backp_args == G2.bprop_variables
            IN The({
              LET backp_fn == Lambda(Append(backp_args, out_sen.r), TRUE,
                                     G2.zeros \o bw.r, backp_ret, backp_sym.r, NoSymbol)
                  E1 == [backp_sym.E EXCEPT
                           !.global_env = (backp_sym.r :> backp_fn)
                                          @@ backp_sym.E.global_env,
                           !.root_globals = (backp_sym.r :> backp_fn)
                                            @@ backp_sym.E.root_globals]
                  backp_cl == Closure(backp_sym.r, backp_args)
              IN The({
                LET forward == Append(fw.r, <<backp_clsym.r, backp_cl>>)
                IN The({ The({ The({
                  LET augm_ret == Tuple(<<ret.r, backp_clsym.r>>)
                      augm_fn == Lambda(augm_args.r, TRUE, forward, augm_ret,
                                        augm_sym.r, name)
                      E2 == [augm_sym.E EXCEPT
                               !.global_env = (augm_sym.r :> augm_fn)
                                              @@ augm_sym.E.global_env,
                               !.root_globals = (augm_sym.r :> augm_fn)
                                                @@ augm_sym.E.root_globals]
                  IN [ok |-> TRUE, G |-> [augm_args.G EXCEPT !.env = E2],
                      forward |-> forward, backward |-> bw.r,
                      backp_sym |-> backp_sym.r, augm_sym |-> augm_sym.r,
                      out_sen |-> out_sen.r]
                  : augm_sym \in {env_gen(E1, name, "JTAG")} })
                  : augm_args \in {tagged_vars(ret.G, args, 1, <<>>)} })
                  : ret \in {tagged_expr(backp_clsym.G, body)} })
                : backp_clsym \in {gensym(G2, name, "BPROP_CLOS")} })
              : backp_sym \in {env_gen(G2.env, name, "BPROP")} })
            : backp_all_ret \in {conformant_all(bw.G, args, 1, <<>>)} })
            : bw \in {backward_loop(fw.G, bindings, Len(bindings), <<>>)} })
        : fw \in {forward_loop(out_sen.G, bindings, 1, <<>>)} })
        : out_sen \in {new_sensitivity_var(G1, body)} })
      : tmp \in {gensym(G0, Symbol("TMP_LET", "local", 0, ""), "")} })

(***************************************************************************)
(* fill, zeros_like, mapadd.                                               *)
(***************************************************************************)
RECURSIVE fill(_, _)
fill(x, value) ==
    IF x.k = "num" THEN Num(value)
    ELSE IF x.k = "tup" THEN
        LET r == [i \in 1..Len(x.t) |-> fill(x.t[i], value)]
        IN IF AnyErr(r) THEN Err ELSE Tup(r)
    ELSE IF x.k \in {"prim", "func"} THEN Tup(<<>>)
    ELSE IF x.k = "clos" THEN
        LET r == [i \in 1..Len(x.t) |-> fill(x.t[i], value)]
        IN IF AnyErr(r) THEN Err ELSE Tup(r)
    ELSE IF x.k = "None" THEN None
    ELSE Err

zeros_like(x) == fill(x, 0)

ones_like(x) == fill(x, 1)

\* mapadd that returns its first argument when that is ZERO.
RECURSIVE mapadd_keepzero(_, _)
mapadd_keepzero(x, y) ==
    IF y.k = "ZERO" THEN Err
    ELSE IF x.k = "ZERO" THEN x
    ELSE IF x.k = "num" /\ y.k = "num" THEN Num(x.n + y.n)
    ELSE IF x.k # y.k THEN Err
    ELSE IF x.k = "tup" THEN
        IF Len(x.t) # Len(y.t) THEN Err
        ELSE LET r == [i \in 1..Len(x.t) |-> mapadd_keepzero(x.t[i], y.t[i])]
             IN IF AnyErr(r) THEN Err ELSE Tup(r)
    ELSE IF x.k = "None" THEN None
    ELSE Err

\* mapadd that tests x for ZERO before it tests y.
RECURSIVE mapadd_xfirst(_, _)
mapadd_xfirst(x, y) ==
    IF x.k = "ZERO" THEN y
    ELSE IF y.k = "ZERO" THEN Err
    ELSE IF x.k = "num" /\ y.k = "num" THEN Num(x.n + y.n)
    ELSE IF x.k # y.k THEN Err
    ELSE IF x.k = "tup" THEN
        IF Len(x.t) # Len(y.t) THEN Err
        ELSE LET r == [i \in 1..Len(x.t) |-> mapadd_xfirst(x.t[i], y.t[i])]
             IN IF AnyErr(r) THEN Err ELSE Tup(r)
    ELSE IF x.k = "None" THEN None
    ELSE Err

RECURSIVE mapadd(_, _)
mapadd(x, y) ==
    IF y.k = "ZERO" THEN Err
    ELSE IF x.k = "ZERO" THEN y
    ELSE IF x.k = "num" /\ y.k = "num" THEN Num(x.n + y.n)
    ELSE IF x.k # y.k THEN Err
    ELSE IF x.k = "tup" THEN
        IF Len(x.t) # Len(y.t) THEN Err
        ELSE LET r == [i \in 1..Len(x.t) |-> mapadd(x.t[i], y.t[i])]
             IN IF AnyErr(r) THEN Err ELSE Tup(r)
    ELSE IF x.k = "None" THEN None
    ELSE Err

(***************************************************************************)
(* JGrad.make_grad, JX, J and Jinv.  Each of the first three may register  *)
(* new Lambdas, so it returns [E, r].                                      *)
(***************************************************************************)
InitGrad ==
    [tagged_map |-> EmptyMap, sensitivity_map |-> EmptyMap,
     backpropagator_map |-> EmptyMap, zeros |-> <<>>,
     bprop_variables |-> <<>>, gen |-> EmptyMap]

make_grad(E, x, nargs_closure) ==
    LET ck == <<x.f, nargs_closure>>
    IN IF ck \in DOMAIN E.cache THEN [E |-> E, r |-> FunctionImpl(E.cache[ck])]
       ELSE The({
              IF ~T.ok THEN [E |-> T.G.env, r |-> Err]
              ELSE [E |-> [T.G.env EXCEPT !.cache = (ck :> T.augm_sym) @@ T.G.env.cache],
                    r |-> FunctionImpl(T.augm_sym)]
              : T \in {transform(InitGrad @@ [env |-> E], E.global_env[RefOf(x)],
                                 RefOf(x), nargs_closure)} })

JX(E, x, nargs_closure) ==
    IF x.k = "prim" THEN
        IF ~HasGrad(x.f) THEN [E |-> E, r |-> Err]
        ELSE The({ [E |-> m.E, r |-> FunctionImpl(m.r)]
                   : m \in {mkgrad(E, RefOf(x), nargs_closure)} })
    ELSE IF x.k = "func" THEN make_grad(E, x, nargs_closure)
    ELSE [E |-> E, r |-> Err]

RECURSIVE J(_, _)
RECURSIVE J_all(_, _, _, _)
J_all(E, xs, i, acc) ==
    IF i > Len(xs) THEN [E |-> E, r |-> acc]
    ELSE The({ J_all(j.E, xs, i + 1, Append(acc, j.r))
               : j \in {J(E, xs[i])} })

J(E, x) ==
    IF x.k = "num" THEN [E |-> E, r |-> x]
    ELSE IF x.k = "tup" THEN
        The({ [E |-> js.E, r |-> IF AnyErr(js.r) THEN Err ELSE Tup(js.r)]
              : js \in {J_all(E, x.t, 1, <<>>)} })
    ELSE IF x.k \in {"prim", "func"} THEN JX(E, x, 0)
    ELSE IF x.k = "clos" THEN
        The({ The({
          [E |-> js.E,
           r |-> IF IsErr(jfn.r) \/ AnyErr(js.r) THEN Err
                 ELSE ClosureImpl(jfn.r, js.r)]
          : js \in {J_all(jfn.E, x.t, 1, <<>>)} })
          : jfn \in {JX(E, FnOf(x), Len(x.t))} })
    ELSE IF x.k \in {"None", "ZERO"} THEN [E |-> E, r |-> x]
    ELSE [E |-> E, r |-> Err]

\* Jinv that leaves the function of a closure lifted.
RECURSIVE Jinv_keepfn(_, _)
Jinv_keepfn(E, x) ==
    IF x.k = "num" THEN x
    ELSE IF x.k = "tup" THEN
        LET r == [i \in 1..Len(x.t) |-> Jinv_keepfn(E, x.t[i])]
        IN IF AnyErr(r) THEN Err ELSE Tup(r)
    ELSE IF x.k = "prim" THEN Err
    ELSE IF x.k = "func" THEN
        LET primal_sym == E.root_globals[RefOf(x)].primal
        IN IF primal_sym = NoSymbol THEN Err
           ELSE evaluate_sym(E, primal_sym)
    ELSE IF x.k = "clos" THEN
        LET r == [i \in 1..Len(x.t) |-> Jinv_keepfn(E, x.t[i])]
        IN IF AnyErr(r) THEN Err ELSE ClosureImpl(FnOf(x), r)
    ELSE IF x.k \in {"None", "ZERO"} THEN x
    ELSE Err

RECURSIVE Jinv(_, _)
Jinv(E, x) ==
    IF x.k = "num" THEN x
    ELSE IF x.k = "tup" THEN
        LET r == [i \in 1..Len(x.t) |-> Jinv(E, x.t[i])]
        IN IF AnyErr(r) THEN Err ELSE Tup(r)
    ELSE IF x.k = "prim" THEN Err
    ELSE IF x.k = "func" THEN
        LET primal_sym == E.root_globals[RefOf(x)].primal
        IN IF primal_sym = NoSymbol THEN Err
           ELSE evaluate_sym(E, primal_sym)
    ELSE IF x.k = "clos" THEN
        LET fn == Jinv(E, FnOf(x))
            r == [i \in 1..Len(x.t) |-> Jinv(E, x.t[i])]
        IN IF IsErr(fn) \/ AnyErr(r) THEN Err ELSE ClosureImpl(fn, r)
    ELSE IF x.k \in {"None", "ZERO"} THEN x
    ELSE Err

(***************************************************************************)
(* Evaluation of the emitted IR: eval_node evaluates an expression in the  *)
(* local environment loc (Symbol -> value), call_value applies a function  *)
(* value.  Both thread the environment E, which J may extend.              *)
(***************************************************************************)
\* Destructuring assignment of value v to the LHS (a Symbol or a Tuple of
\* Symbols); ok is FALSE when the shapes differ.
RECURSIVE bind_lhs(_, _, _)
RECURSIVE bind_all(_, _, _, _)
bind_all(loc, lhss, vs, i) ==
    IF i > Len(lhss) THEN [loc |-> loc, ok |-> TRUE]
    ELSE The({ IF b.ok THEN bind_all(b.loc, lhss, vs, i + 1) ELSE b
               : b \in {bind_lhs(loc, lhss[i], vs[i])} })

bind_lhs(loc, lhs, v) ==
    IF lhs.t = "Symbol" THEN [loc |-> (lhs :> v) @@ loc, ok |-> TRUE]
    ELSE IF v.k = "tup" /\ Len(v.t) = Len(lhs.sub) THEN bind_all(loc, lhs.sub, v.t, 1)
    ELSE [loc |-> loc, ok |-> FALSE]

RECURSIVE eval_node(_, _, _)
RECURSIVE eval_nodes(_, _, _, _, _)
RECURSIVE eval_bindings(_, _, _, _)
RECURSIVE call_value(_, _, _)

eval_nodes(E, loc, nodes, i, acc) ==
    IF i > Len(nodes) THEN [E |-> E, r |-> acc]
    ELSE The({ eval_nodes(e.E, loc, nodes, i + 1, Append(acc, e.r))
               : e \in {eval_node(E, loc, nodes[i])} })

eval_bindings(E, loc, bindings, i) ==
    IF i > Len(bindings) THEN [E |-> E, loc |-> loc, ok |-> TRUE]
    ELSE The({ The({
           IF IsErr(e.r) \/ ~b.ok THEN [E |-> e.E, loc |-> loc, ok |-> FALSE]
           ELSE eval_bindings(e.E, b.loc, bindings, i + 1)
           : b \in {bind_lhs(loc, bindings[i][1], e.r)} })
           : e \in {eval_node(E, loc, bindings[i][2])} })

call_lambda(E, L, args) ==
    IF Len(args) # Len(L.args) THEN [E |-> E, r |-> Err]
    ELSE The({
           IF ~L.isLet THEN eval_node(E, loc, L.body)
           ELSE The({ IF ~bs.ok THEN [E |-> bs.E, r |-> Err]
                      ELSE eval_node(bs.E, bs.loc, L.body)
                      : bs \in {eval_bindings(E, loc, L.bindings, 1)} })
           : loc \in {bind_all(EmptyMap, L.args, args, 1).loc} })

call_primitive(E, prim, args) ==
    IF prim \in {"add", "multiply"} THEN
        IF Len(args) # 2 \/ args[1].k # "num" \/ args[2].k # "num"
        THEN [E |-> E, r |-> Err]
        ELSE [E |-> E, r |-> Num(IF prim = "add" THEN args[1].n + args[2].n
                                 ELSE args[1].n * args[2].n)]
    ELSE IF prim = "mapadd" /\ Len(args) = 2 THEN [E |-> E, r |-> mapadd(args[1], args[2])]
    ELSE IF prim = "zeros_like" /\ Len(args) = 1 THEN [E |-> E, r |-> zeros_like(args[1])]
    ELSE IF prim = "J" /\ Len(args) = 1 THEN J(E, args[1])
    ELSE IF prim = "Jinv" /\ Len(args) = 1 THEN [E |-> E, r |-> Jinv(E, args[1])]
    ELSE IF prim = "identity" /\ Len(args) = 1 THEN [E |-> E, r |-> args[1]]
    ELSE [E |-> E, r |-> Err]

call_value(E, f, args) ==
    IF AnyErr(args) THEN [E |-> E, r |-> Err]
    ELSE IF f.k = "prim" THEN call_primitive(E, f.f, args)
    ELSE IF f.k = "func" THEN call_lambda(E, E.root_globals[RefOf(f)], args)
    ELSE IF f.k = "clos" THEN call_value(E, FnOf(f), f.t \o args)
    ELSE [E |-> E, r |-> Err]

eval_node(E, loc, node) ==
    IF node.t = "Value" THEN [E |-> E, r |-> IF node = ValueZERO THEN ZERO ELSE Num(node.ver)]
    ELSE IF node.t = "Symbol" THEN
        [E |-> E, r |-> IF node \in DOMAIN loc THEN loc[node] ELSE evaluate_sym(E, node)]
    ELSE The({
           IF AnyErr(vs.r) THEN [E |-> vs.E, r |-> Err]
           ELSE IF node.t = "Tuple" THEN [E |-> vs.E, r |-> Tup(vs.r)]
           ELSE IF node.t = "Apply" THEN call_value(vs.E, vs.r[1], Tail(vs.r))
           ELSE [E |-> vs.E, r |-> ClosureImpl(vs.r[1], Tail(vs.r))]
           : vs \in {eval_nodes(E, loc, node.sub, 1, <<>>)} })

(***************************************************************************)
(* Input Lambdas: functions in A-normal form over the parameters           *)
(* ParamNames[1..n] with k <= MaxBind bindings.  Binding j defines         *)
(* LetNames[j], or deconstructs into the pair (LetNames[j], PairNames[j]), *)
(* from the variables defined before it and the literal 2.  The function   *)
(* returns LetNames[k]; a Lambda without bindings returns a parameter.     *)
(***************************************************************************)
Params(n) == [i \in 1..n |-> lsym(ParamNames[i])]

\* The variables binding j may mention when every binding before it is a
\* deconstructing one.
Scope(n, j) ==
    {lsym(ParamNames[i]) : i \in 1..n}
    \cup {lsym(LetNames[i]) : i \in 1..(j - 1)}
    \cup {lsym(PairNames[i]) : i \in 1..(j - 1)}

Leaves(n, j) == Scope(n, j) \cup {Value(2)}

ArithOps == {"add", "multiply"}

ApplyRHS(n, j) ==
    {Apply(bsym(op), <<u, w>>) : op \in ArithOps, u \in Leaves(n, j), w \in Leaves(n, j)}

OtherRHS(n, j) ==
    Scope(n, j) \cup {Value(2)}
    \cup {Tuple(<<u, w>>) : u \in Scope(n, j), w \in Leaves(n, j)}
    \cup {Closure(bsym("add"), <<u>>) : u \in Leaves(n, j)}

\* Right-hand sides of a deconstructing binding.
PairRHS(n, j) ==
    Scope(n, j)
    \cup {Tuple(<<u, w>>) : u \in Scope(n, j), w \in Scope(n, j)}
    \cup {Apply(bsym("multiply"), <<u, w>>) : u \in Scope(n, j), w \in Scope(n, j)}

\* A binding is [pair, rhs]: pair tells whether it deconstructs.
Bindings(n, j, arith) ==
    {[pair |-> FALSE, rhs |-> r] : r \in ApplyRHS(n, j)}
    \cup (IF arith THEN {}
          ELSE {[pair |-> FALSE, rhs |-> r] : r \in OtherRHS(n, j)}
               \cup {[pair |-> TRUE, rhs |-> r] : r \in PairRHS(n, j)})

\* The variables defined before binding j of bs.
Defined(n, bs, j) ==
    {lsym(ParamNames[i]) : i \in 1..n}
    \cup {lsym(LetNames[i]) : i \in 1..(j - 1)}
    \cup {lsym(PairNames[i]) : i \in {i \in 1..(j - 1) : bs[i].pair}}

\* Every variable binding j mentions is defined before it.
InScope(n, bs, j) ==
    IF bs[j].rhs.t = "Symbol" THEN bs[j].rhs \in Defined(n, bs, j)
    ELSE \A i \in 1..Len(bs[j].rhs.sub) :
            bs[j].rhs.sub[i].ns = "local" => bs[j].rhs.sub[i] \in Defined(n, bs, j)

fname == Symbol("f", "global", 0, "")

LetLambda(n, k, bs) ==
    Lambda(Params(n), TRUE,
           [j \in 1..k |->
              <<IF bs[j].pair THEN Tuple(<<lsym(LetNames[j]), lsym(PairNames[j])>>)
                ELSE lsym(LetNames[j]),
                bs[j].rhs>>],
           lsym(LetNames[k]), fname, NoSymbol)

\* A function whose bindings are the calls given, none deconstructing.
CallLambda(n, calls) ==
    LetLambda(n, Len(calls), [j \in 1..Len(calls) |-> [pair |-> FALSE, rhs |-> calls[j]]])

BareLambda(n, i) == Lambda(Params(n), FALSE, <<>>, Params(n)[i], fname, NoSymbol)

NoLambda == Lambda(<<>>, FALSE, <<>>, NoSymbol, NoSymbol, NoSymbol)

\* The argument values a function of n parameters is called with.
Inputs(n, s) == [i \in 1..n |-> Num(i + 1 + s)]

(***************************************************************************)
(* Meta-graphs (myia/ir/metagraph.py, myia/composite.py).                  *)
(*                                                                         *)
(* An abstract argument is a record: its kind, its type as build_type      *)
(* gives it, its shape when it is an array, and n: the number of elements  *)
(* of a tuple, or the number of parameters of the graph of a function.     *)
(***************************************************************************)
ANYTHING == 0

AbstractScalar(type) == [k |-> "Scalar", type |-> type, shape |-> <<>>, n |-> 0]

AbstractArray(shape) == [k |-> "Array", type |-> "Array", shape |-> shape, n |-> 0]

AbstractTuple(n) == [k |-> "Tuple", type |-> "Tuple", shape |-> <<>>, n |-> n]

AbstractList == [k |-> "List", type |-> "List", shape |-> <<>>, n |-> 0]

\* A function known to be one graph (GraphFunction) of n parameters, or a
\* primitive.
AbstractFunction(kind, n) == [k |-> "Function", type |-> kind, shape |-> <<>>, n |-> n]

\* The nodes of a Graph.  A Parameter carries <<graph, position>>, a
\* Constant a primitive's or a function's name, or a tuple of integers, or a
\* Graph; an application holds the applied node first, then its inputs.
GN(k, name, val, ins) == [k |-> k, name |-> name, val |-> val, ins |-> ins]

Parameter(g, i) == GN("Parameter", "", <<g, i>>, <<>>)

Constant(name) == GN("Constant", name, <<>>, <<>>)

ConstantOf(val) == GN("Constant", "", val, <<>>)

GraphConstant(g) == GN("Graph", "", <<g>>, <<>>)

apply(fn, ins) == GN("Apply", "", <<>>, <<fn>> \o ins)

NoNode == GN("None", "", <<>>, <<>>)

Graph(name, nparams, output, core) ==
    [name |-> name, nparams |-> nparams, output |-> output, core |-> core]

\* What generate_graph gives back: the MetaGraph objects and the Graphs as
\* it leaves them, the Graph returned, and the error raised, if any.
Generated(mgs, gs, r) == [mgs |-> mgs, graphs |-> gs, r |-> r, err |-> ""]

Raised(mgs, gs, err) == [mgs |-> mgs, graphs |-> gs, r |-> 0, err |-> err]

(***************************************************************************)
(* Elemwise.generate_graph.                                                *)
(***************************************************************************)
Pad(shp, n) == [i \in 1..n |-> IF i <= n - Len(shp) THEN 1 ELSE shp[i - (n - Len(shp))]]

broadcast_shape(shpx, shpy) ==
    LET n == IF Len(shpx) > Len(shpy) THEN Len(shpx) ELSE Len(shpy)
        x == Pad(shpx, n)
        y == Pad(shpy, n)
    IN [ok |-> \A i \in 1..n : \/ x[i] = 1 \/ y[i] = 1
                               \/ x[i] = ANYTHING \/ y[i] = ANYTHING
                               \/ x[i] = y[i],
        r |-> [i \in 1..n |-> IF x[i] = 1 THEN y[i]
                              ELSE IF y[i] = 1 THEN x[i]
                              ELSE IF x[i] = ANYTHING THEN y[i]
                              ELSE x[i]]]

RECURSIVE reduce_broadcast(_, _, _)
reduce_broadcast(shapes, i, acc) ==
    IF i > Len(shapes) \/ ~acc.ok THEN acc
    ELSE reduce_broadcast(shapes, i + 1, broadcast_shape(acc.r, shapes[i].shape))

RECURSIVE reduce_build(_, _, _)
reduce_build(argshapes, i, acc) ==
    IF i > Len(argshapes) THEN acc
    ELSE reduce_build(argshapes, i + 1,
                      apply(Constant("broadcast_shape"), <<acc, argshapes[i]>>))

Elemwise_sig(args) ==
    [i \in 1..Len(args) |->
        [array |-> args[i].k = "Array",
         shape |-> IF args[i].k = "Array" THEN args[i].shape ELSE <<>>]]

Elemwise_params(g, args, is_array_op) ==
    [i \in 1..Len(args) |->
        IF is_array_op /\ args[i].k # "Array"
        THEN apply(Constant("to_array"), <<Parameter(g, i)>>)
        ELSE Parameter(g, i)]

Elemwise_final_shape(shapes) ==
    reduce_broadcast(shapes, 2, [ok |-> TRUE, r |-> shapes[1].shape])

IsDynamic(shp) == \E d \in 1..Len(shp) : shp[d] = ANYTHING

\* Elemwise's transformed parameters with the shape test left out: every
\* parameter is distributed.
Elemwise_transformed_all(sig, params, fs) ==
    LET argshapes == [i \in 1..Len(params) |-> apply(Constant("shape"), <<params[i]>>)]
        final_shape == IF IsDynamic(fs)
                       THEN reduce_build(argshapes, 2, argshapes[1])
                       ELSE ConstantOf(fs)
    IN [i \in 1..Len(params) |->
          apply(Constant("distribute"), <<params[i], final_shape>>)]

Elemwise_transformed(sig, params, fs) ==
    LET argshapes == [i \in 1..Len(params) |-> apply(Constant("shape"), <<params[i]>>)]
        final_shape == IF IsDynamic(fs)
                       THEN reduce_build(argshapes, 2, argshapes[1])
                       ELSE ConstantOf(fs)
    IN [i \in 1..Len(params) |->
          IF IsDynamic(fs) \/ fs # sig[i].shape
          THEN apply(Constant("distribute"), <<params[i], final_shape>>)
          ELSE params[i]]

Elemwise_build(self, g, args) ==
    LET sig == Elemwise_sig(args)
        shapes == SelectSeq(sig, LAMBDA x : x.array)
        params == Elemwise_params(g, args, Len(shapes) > 0)
        fn == Constant(IF self.scalar_op # "" THEN self.scalar_op ELSE self.name)
    IN IF Len(shapes) > 0
       THEN IF ~Elemwise_final_shape(shapes).ok
            THEN [ok |-> FALSE, g |-> Graph(self.name, Len(args), NoNode, FALSE)]
            ELSE [ok |-> TRUE,
                  g |-> Graph(self.name, Len(args),
                              apply(Constant("array_map"),
                                    <<fn>> \o Elemwise_transformed(
                                        sig, params, Elemwise_final_shape(shapes).r)),
                              FALSE)]
       ELSE [ok |-> TRUE,
             g |-> Graph(self.name, Len(args),
                         apply(apply(Constant("getattr"),
                                     <<params[1], Constant(self.name)>>),
                               Tail(params)),
                         FALSE)]

Elemwise_generate_graph_memo(mgs, gs, m, args) ==
    IF Elemwise_sig(args) \in DOMAIN mgs[m].cache
    THEN IF mgs[m].cache[Elemwise_sig(args)] = 0
         THEN Raised(mgs, gs, "MyiaShapeError")
         ELSE Generated(mgs, gs, mgs[m].cache[Elemwise_sig(args)])
    ELSE The({ IF ~b.ok
               THEN Raised([mgs EXCEPT ![m].cache = (Elemwise_sig(args) :> 0) @@ @],
                           gs, "MyiaShapeError")
               ELSE Generated(
                      [mgs EXCEPT ![m].cache = (Elemwise_sig(args) :> (Len(gs) + 1)) @@ @],
                      Append(gs, b.g), Len(gs) + 1)
               : b \in {Elemwise_build(mgs[m], Len(gs) + 1, args)} })

Elemwise_generate_graph(mgs, gs, m, args) ==
    IF Elemwise_sig(args) \in DOMAIN mgs[m].cache
    THEN Generated(mgs, gs, mgs[m].cache[Elemwise_sig(args)])
    ELSE The({ IF ~b.ok THEN Raised(mgs, gs, "MyiaShapeError")
               ELSE Generated(
                      [mgs EXCEPT ![m].cache = (Elemwise_sig(args) :> (Len(gs) + 1)) @@ @],
                      Append(gs, b.g), Len(gs) + 1)
               : b \in {Elemwise_build(mgs[m], Len(gs) + 1, args)} })

(***************************************************************************)
(* MetaGraph.generate_graph and MultitypeGraph.                            *)
(***************************************************************************)
issubtype(t2, t1) == t2 = t1 \/ (t1 = "Number" /\ t2 \in {"Int", "Float"})

build_type(arg) == arg.type

\* _getfn keeping the last entry that accepts the types, not the first.
RECURSIVE MultitypeGraph_getfn_last(_, _, _)
MultitypeGraph_getfn_last(entries, types, i) ==
    IF i > Len(entries) THEN 0
    ELSE IF MultitypeGraph_getfn_last(entries, types, i + 1) # 0
         THEN MultitypeGraph_getfn_last(entries, types, i + 1)
         ELSE IF /\ Len(entries[i].sig) = Len(types)
                 /\ \A j \in 1..Len(types) : issubtype(types[j], entries[i].sig[j])
              THEN i
              ELSE 0

\* The first entry that accepts the types; 0 when there is none.
RECURSIVE MultitypeGraph_getfn(_, _, _)
MultitypeGraph_getfn(entries, types, i) ==
    IF i > Len(entries) THEN 0
    ELSE IF Len(entries[i].sig) # Len(types)
         THEN MultitypeGraph_getfn(entries, types, i + 1)
         ELSE IF \A j \in 1..Len(types) : issubtype(types[j], entries[i].sig[j])
              THEN i
              ELSE MultitypeGraph_getfn(entries, types, i + 1)

\* The Graph the parser makes of a function: known here by the function.
parse(fn, nparams) == Graph(fn, nparams, apply(Constant(fn), <<>>), TRUE)

MultitypeGraph_generate_from_types(self, types) ==
    LET i == MultitypeGraph_getfn(self.entries, types, 1)
    IN IF i = 0 THEN [ok |-> FALSE, g |-> Graph("", 0, NoNode, FALSE)]
       ELSE [ok |-> TRUE, g |-> parse(self.entries[i].fn, Len(types))]

MetaGraph_generate_graph(mgs, gs, m, args) ==
    LET types == [i \in 1..Len(args) |-> build_type(args[i])]
    IN IF types \in DOMAIN mgs[m].cache
       THEN Generated(mgs, gs, mgs[m].cache[types])
       ELSE The({ IF ~b.ok THEN Raised(mgs, gs, "GraphGenerationError")
                  ELSE Generated(
                         [mgs EXCEPT ![m].cache = (types :> (Len(gs) + 1)) @@ @],
                         Append(gs, b.g), Len(gs) + 1)
                  : b \in {MultitypeGraph_generate_from_types(mgs[m], types)} })

register(mgs, m, types, fn) ==
    [mgs EXCEPT ![m].entries = Append(@, [sig |-> types, fn |-> fn])]

(***************************************************************************)
(* Tail.generate_graph.                                                    *)
(***************************************************************************)
Tail_generate_graph(mgs, gs, m, args) ==
    IF Len(args) # 1 THEN Raised(mgs, gs, "MyiaTypeError")
    ELSE IF args[1].k # "Tuple" THEN Raised(mgs, gs, "MyiaTypeError")
    ELSE IF args[1].n = 0 THEN Raised(mgs, gs, "MyiaTypeError")
    ELSE LET g == Len(gs) + 1
             elems == [i \in 1..(args[1].n - 1) |->
                         apply(Constant("tuple_getitem"),
                               <<Parameter(g, 1), ConstantOf(<<i>>)>>)]
         IN Generated(mgs,
                      Append(gs, Graph("", 1, apply(Constant("make_tuple"), elems), TRUE)),
                      g)

(***************************************************************************)
(* ListMap.generate_graph: the Graph list_map and its four helpers.        *)
(***************************************************************************)
getitems(nexts, i) ==
    [j \in 1..Len(nexts) |->
        apply(Constant("tuple_getitem"), <<nexts[j], ConstantOf(<<i>>)>>)]

applyeach(fn, nodes) == [j \in 1..Len(nodes) |-> apply(Constant(fn), <<nodes[j]>>)]

parameters(g, from, n) == [j \in 1..n |-> Parameter(g, from + j)]

RECURSIVE reduce_bool_and(_, _, _)
reduce_bool_and(hasnexts, i, acc) ==
    IF i > Len(hasnexts) THEN acc
    ELSE reduce_bool_and(hasnexts, i + 1,
                         apply(Constant("bool_and"), <<acc, hasnexts[i]>>))

ListMap_g(g, gcond, n) ==
    LET fn == Parameter(g, 1)
        nexts == applyeach("next", applyeach("list_iter", parameters(g, 1, n)))
        resl == apply(Constant("make_list"), <<apply(fn, getitems(nexts, 0))>>)
    IN Graph("list_map", n + 1,
             apply(GraphConstant(gcond), <<fn, resl>> \o getitems(nexts, 1)),
             TRUE)

\* make_next without the list_append: the mapped element is dropped.
make_next_dropping(g, gcond, n) ==
    LET fn == Parameter(g, 1)
        nexts == applyeach("next", parameters(g, 2, n))
    IN Graph("body", n + 2,
             apply(GraphConstant(gcond),
                   <<fn, Parameter(g, 2)>> \o getitems(nexts, 1)),
             FALSE)

make_next(g, gcond, n) ==
    LET fn == Parameter(g, 1)
        nexts == applyeach("next", parameters(g, 2, n))
        resl == apply(Constant("list_append"),
                      <<Parameter(g, 2), apply(fn, getitems(nexts, 0))>>)
    IN Graph("body", n + 2,
             apply(GraphConstant(gcond), <<fn, resl>> \o getitems(nexts, 1)),
             FALSE)

make_cond(g, gtrue, gfalse, n) ==
    LET hasnexts == applyeach("hasnext", parameters(g, 2, n))
        cond == reduce_bool_and(hasnexts, 2, hasnexts[1])
    IN Graph("cond", n + 2,
             apply(apply(Constant("switch"),
                         <<cond, GraphConstant(gtrue), GraphConstant(gfalse)>>),
                   <<>>),
             FALSE)

make_cond_gtrue(gcond, gnext, n) ==
    Graph("ftrue", 0,
          apply(GraphConstant(gnext),
                <<Parameter(gcond, 1), Parameter(gcond, 2)>> \o parameters(gcond, 2, n)),
          TRUE)

make_cond_gfalse(gcond) == Graph("ffalse", 0, Parameter(gcond, 2), TRUE)

ListMap_generate_graph(mgs, gs, m, args) ==
    IF Len(args) < 2 THEN Raised(mgs, gs, "MyiaTypeError")
    ELSE IF \E i \in 2..Len(args) : args[i].k # "List"
    THEN Raised(mgs, gs, "MyiaTypeError")
    ELSE LET g == Len(gs) + 1
             n == Len(args) - 1
         IN Generated(mgs,
                      gs \o <<ListMap_g(g, g + 2, n),
                              make_next(g + 1, g + 2, n),
                              make_cond(g + 2, g + 3, g + 4, n),
                              make_cond_gtrue(g + 2, g + 1, n),
                              make_cond_gfalse(g + 2)>>,
                      g)

(***************************************************************************)
(* GradOperation: make_gf and generate_graph.                              *)
(***************************************************************************)
\* make_gf returning the element at index 0 when get_all is not set.
make_gf_index0(df, jf0, nparams, sens_param, get_all, apply_j) ==
    LET jf == IF apply_j THEN apply(Constant("J"), <<jf0>>) ELSE jf0
        app == apply(jf, applyeach("J", parameters(df, 0, nparams)))
        out_ == apply(Constant("Jinv"),
                      <<apply(Constant("tuple_getitem"), <<app, ConstantOf(<<0>>)>>)>>)
        bprop_arg == IF sens_param THEN Parameter(df, nparams + 1)
                     ELSE apply(Constant("_cast_helper"), <<ConstantOf(<<1>>), out_>>)
        bapp == apply(apply(Constant("tuple_getitem"), <<app, ConstantOf(<<1>>)>>),
                      <<bprop_arg>>)
    IN Graph("", IF sens_param THEN nparams + 1 ELSE nparams,
             IF get_all THEN apply(Constant("tail"), <<bapp>>)
             ELSE apply(Constant("tuple_getitem"), <<bapp, ConstantOf(<<0>>)>>),
             FALSE)

make_gf(df, jf0, nparams, sens_param, get_all, apply_j) ==
    LET jf == IF apply_j THEN apply(Constant("J"), <<jf0>>) ELSE jf0
        jparams == applyeach("J", parameters(df, 0, nparams))
        app == apply(jf, jparams)
        out_ == apply(Constant("Jinv"),
                      <<apply(Constant("tuple_getitem"), <<app, ConstantOf(<<0>>)>>)>>)
        bprop == apply(Constant("tuple_getitem"), <<app, ConstantOf(<<1>>)>>)
        bprop_arg == IF sens_param THEN Parameter(df, nparams + 1)
                     ELSE apply(Constant("_cast_helper"), <<ConstantOf(<<1>>), out_>>)
        bapp == apply(bprop, <<bprop_arg>>)
    IN Graph("", IF sens_param THEN nparams + 1 ELSE nparams,
             IF get_all THEN apply(Constant("tail"), <<bapp>>)
             ELSE apply(Constant("tuple_getitem"), <<bapp, ConstantOf(<<1>>)>>),
             FALSE)

GradOperation_generate_graph(mgs, gs, m, args) ==
    IF Len(args) # 1 THEN Raised(mgs, gs, "ValueError")
    ELSE IF args[1].k # "Function" \/ args[1].type # "GraphFunction"
    THEN Raised(mgs, gs, "AssertionError")
    ELSE LET dfbuilder == Len(gs) + 1
             jf == apply(Constant("J"), <<Parameter(dfbuilder, 1)>>)
         IN Generated(mgs,
                      gs \o <<Graph("grad", 1, GraphConstant(dfbuilder + 1), FALSE),
                              make_gf(dfbuilder + 1, jf, args[1].n, FALSE, FALSE, FALSE)>>,
                      dfbuilder)

(***************************************************************************)
(* Evaluation of a Graph.  Values are integers, booleans, sequences (lists *)
(* and tuples), iterators and functions.  An application evaluates the     *)
(* applied node and its inputs, left to right, and then calls; a call of   *)
(* a Graph evaluates its output with the arguments as its parameters.      *)
(* The state carries the fuel left (one unit per call of a Graph), the     *)
(* arguments the mapped function was applied to, whether all went well,    *)
(* and the error of a read past the end of a sequence.                     *)
(***************************************************************************)
SequenceIterator(idx, seq) == [k |-> "iter", idx |-> idx, seq |-> seq]

FnValue(name) == [k |-> "fn", name |-> name]

PrimValue(name) == [k |-> "prim", name |-> name]

GraphValue(g, frames) == [k |-> "graph", g |-> g, frames |-> frames]

NumValue(n) == [k |-> "num", v |-> n]

JValue(x) == [k |-> "J", v |-> x]

\* A function of n parameters given to grad, what J makes of it, and the
\* backpropagator a call of that returns.
GFn(n) == [k |-> "gfn", n |-> n]

JFn(n) == [k |-> "jfn", n |-> n]

Bprop(n) == [k |-> "bprop", n |-> n]

\* What a backpropagator returns for a sensitivity: at index 0 the
\* gradients of the closure, at index i the gradient of input i.
Gradient(i, sens) == [k |-> "grad", i |-> i, sens |-> sens]

\* The functions given to list_map.
MappedFn(name, x) == IF name = "inc" THEN x + 1 ELSE x * x

Ev(v, S) == [v |-> v, S |-> S]

Failed(S) == Ev(0, [S EXCEPT !.ok = FALSE])

call_prim(name, a, S) ==
    CASE name = "list_iter" -> Ev(SequenceIterator(0, a[1]), S)
      [] name = "hasnext" -> Ev(a[1].idx < Len(a[1].seq), S)
      [] name = "next" ->
           IF a[1].idx < Len(a[1].seq)
           THEN Ev(<<a[1].seq[a[1].idx + 1],
                     SequenceIterator(a[1].idx + 1, a[1].seq)>>, S)
           ELSE Failed([S EXCEPT !.err = "IndexError"])
      [] name = "tuple_getitem" -> Ev(a[1][a[2] + 1], S)
      [] name = "make_list" -> Ev(a, S)
      [] name = "list_append" -> Ev(Append(a[1], a[2]), S)
      [] name = "bool_and" -> Ev(a[1] /\ a[2], S)
      [] name = "make_tuple" -> Ev(a, S)
      [] name = "J" -> Ev(IF a[1].k = "gfn" THEN JFn(a[1].n) ELSE JValue(a[1]), S)
      [] name = "Jinv" -> IF a[1].k = "J" THEN Ev(a[1].v, S) ELSE Failed(S)
      [] name = "_cast_helper" -> Ev(NumValue(a[1]), S)
      [] name = "switch" -> Ev(IF a[1] THEN a[2] ELSE a[3], S)
      [] OTHER -> Failed(S)

RECURSIVE run_node(_, _, _, _)
RECURSIVE run_inputs(_, _, _, _, _, _)
RECURSIVE run_call(_, _, _, _)
run_node(gs, frames, node, S) ==
    IF ~S.ok THEN Ev(0, S)
    ELSE IF node.k = "Parameter" THEN Ev(frames[node.val[1]][node.val[2]], S)
    ELSE IF node.k = "Constant"
    THEN Ev(IF node.name # "" THEN PrimValue(node.name) ELSE node.val[1], S)
    ELSE IF node.k = "Graph" THEN Ev(GraphValue(node.val[1], frames), S)
    ELSE The({ IF ~vs.S.ok THEN Ev(0, vs.S)
               ELSE run_call(gs, Head(vs.v), Tail(vs.v), vs.S)
               : vs \in {run_inputs(gs, frames, node.ins, 1, <<>>, S)} })

run_inputs(gs, frames, ins, i, acc, S) ==
    IF i > Len(ins) \/ ~S.ok THEN Ev(acc, S)
    ELSE The({ run_inputs(gs, frames, ins, i + 1, Append(acc, r.v), r.S)
               : r \in {run_node(gs, frames, ins[i], S)} })

run_call(gs, fn, a, S) ==
    IF fn.k = "prim" /\ fn.name = "tail"
    THEN The({ IF t.err # "" THEN Failed(S)
               ELSE run_call(t.graphs, GraphValue(t.r, EmptyMap), a, S)
               : t \in {Tail_generate_graph(<<>>, gs, "tail",
                                            <<AbstractTuple(Len(a[1]))>>)} })
    ELSE IF fn.k = "prim" THEN call_prim(fn.name, a, S)
    ELSE IF fn.k = "fn"
    THEN Ev(MappedFn(fn.name, a[1]), [S EXCEPT !.trace = Append(@, a[1])])
    ELSE IF fn.k = "jfn"
    THEN IF Len(a) = fn.n /\ \A i \in 1..Len(a) : a[i].k = "J"
         THEN Ev(<<JValue(NumValue(0)), Bprop(fn.n)>>, S)
         ELSE Failed(S)
    ELSE IF fn.k = "bprop"
    THEN Ev([i \in 1..(fn.n + 1) |-> Gradient(i - 1, a[1])],
            [S EXCEPT !.trace = Append(@, a[1])])
    ELSE IF S.fuel = 0 THEN Failed(S)
    ELSE run_node(gs, (fn.g :> a) @@ fn.frames, gs[fn.g].output,
                  [S EXCEPT !.fuel = @ - 1])

(***************************************************************************)
(* State.                                                                  *)
(***************************************************************************)
VARIABLES
    pc,             \* the step the run is at
    primal,         \* the Lambda given to Grad
    nargs_closure,  \* Grad.nargs_closure
    grad,           \* the Grad object: its maps, zeros, bprop_variables, gensym
    env,            \* global_env, root_globals, ParseEnv counters, caches
    result,         \* what transform built and returned
    args,           \* the arguments of the call under study
    out,            \* its result
    back,           \* the result of the call that follows it
    metagraphs,     \* the MetaGraph objects: their cache, their entries
    graphs,         \* the Graph objects built so far; a Graph is known by its index
    calls           \* the generate_graph calls made so far and what each returned

vars == <<pc, primal, nargs_closure, grad, env, result, args, out, back,
          metagraphs, graphs, calls>>

\* No meta-graph is in use.
NoMetaGraphs == metagraphs = <<>> /\ graphs = <<>> /\ calls = <<>>

InitEnv(p) ==
    [global_env |-> (fname :> p), root_globals |-> (fname :> p),
     gen |-> EmptyMap, cache |-> EmptyMap]

EmptyEnv ==
    [global_env |-> EmptyMap, root_globals |-> EmptyMap,
     gen |-> EmptyMap, cache |-> EmptyMap]

NoResult ==
    [ok |-> FALSE, forward |-> <<>>, backward |-> <<>>,
     backp_sym |-> NoSymbol, augm_sym |-> NoSymbol, out_sen |-> NoSymbol]

\* The program under transformation: any input Lambda and any nargs_closure
\* up to its number of parameters.
InitPrimal(arith) ==
    \E n \in 1..Len(ParamNames) :
        /\ \/ \E i \in 1..n : primal = BareLambda(n, i)
           \/ \E k \in 1..MaxBind : \E bs \in [1..k -> Bindings(n, k, arith)] :
                 /\ \A j \in 1..k : InScope(n, bs, j)
                 /\ primal = LetLambda(n, k, bs)
        /\ nargs_closure \in 0..n

InitGradState(arith) ==
    /\ pc = "init"
    /\ InitPrimal(arith)
    /\ grad = InitGrad
    /\ env = InitEnv(primal)
    /\ result = NoResult
    /\ args = <<>>
    /\ out = None
    /\ back = None
    /\ NoMetaGraphs

Init == InitGradState(FALSE)

GradFields == DOMAIN InitGrad

\* G = Grad(name, primal, nargs_closure); g = G.transform()
Transform ==
    /\ pc = "init"
    /\ \E T \in {transform(grad @@ [env |-> env], primal, fname, nargs_closure)} :
          /\ pc' = IF T.ok THEN "transformed" ELSE "failed"
          /\ grad' = [f \in GradFields |-> T.G[f]]
          /\ env' = T.G.env
          /\ result' = [ok |-> T.ok, forward |-> T.forward, backward |-> T.backward,
                        backp_sym |-> T.backp_sym, augm_sym |-> T.augm_sym,
                        out_sen |-> T.out_sen]
    /\ UNCHANGED <<primal, nargs_closure, args, out, back,
                 metagraphs, graphs, calls>>

Next == Transform

Spec == Init /\ [][Next]_vars

(***************************************************************************)
(* Running the transformed function: the augmented function is called on   *)
(* the inputs, then the backpropagator it returned is called on the        *)
(* output sensitivity 1.                                                   *)
(***************************************************************************)
InitEval == InitGradState(TRUE)

\* The transformed function itself, or, when nargs_closure > 0, the closure
\* that stores its first nargs_closure arguments.
AugmentedCallee(s) ==
    IF nargs_closure = 0 THEN FunctionImpl(result.augm_sym)
    ELSE ClosureImpl(FunctionImpl(result.augm_sym),
                     SeqTake(Inputs(Len(primal.args), s), nargs_closure))

CallAugmented ==
    /\ pc = "transformed"
    /\ \E s \in 0..ArgSpan :
        \E c \in {call_value(env, AugmentedCallee(s),
                             SeqDrop(Inputs(Len(primal.args), s), nargs_closure))} :
          /\ args' = Inputs(Len(primal.args), s)
          /\ out' = c.r
          /\ env' = c.E
    /\ pc' = "called"
    /\ UNCHANGED <<primal, nargs_closure, grad, result, back,
                 metagraphs, graphs, calls>>

CallBprop ==
    /\ pc = "called"
    /\ out.k = "tup"
    /\ \E c \in {call_value(env, out.t[2], <<Num(1)>>)} :
          /\ back' = c.r
          /\ env' = c.E
    /\ pc' = "done"
    /\ UNCHANGED <<primal, nargs_closure, grad, result, args, out,
                 metagraphs, graphs, calls>>

NextEval == Transform \/ CallAugmented \/ CallBprop

SpecEval == InitEval /\ [][NextEval]_vars

(***************************************************************************)
(* The GRAD macro and the return tuple of transform on the same gradients. *)
(***************************************************************************)
GradExprs ==
    {lsym("d"),
     Apply(bsym("multiply"), <<lsym("d"), lsym("y")>>),
     Apply(bsym("multiply"), <<lsym("d"), lsym("x")>>)}

\* The variables that take no part in a specification.
Idle ==
    /\ primal = NoLambda
    /\ grad = InitGrad
    /\ env = EmptyEnv
    /\ result = NoResult

InitGRAD ==
    /\ pc = "init"
    /\ \E n \in 0..MaxGrads :
         /\ args \in [1..n -> GradExprs]
         /\ nargs_closure \in 0..n
    /\ Idle
    /\ out = None
    /\ back = None
    /\ NoMetaGraphs

\* GRAD(*args) with GRAD = macro_grad_for(nargs_closure)
MacroGrad ==
    /\ pc = "init"
    /\ out' = macro_grad(nargs_closure, args)
    /\ pc' = "expanded"
    /\ UNCHANGED <<primal, nargs_closure, grad, env, result, args, back,
                 metagraphs, graphs, calls>>

\* backp_ret of transform for the gradients args
BackpRet ==
    /\ pc = "expanded"
    /\ back' = backp_ret_of(args, nargs_closure)
    /\ pc' = "grouped"
    /\ UNCHANGED <<primal, nargs_closure, grad, env, result, args, out,
                 metagraphs, graphs, calls>>

NextGRAD == MacroGrad \/ BackpRet

SpecGRAD == InitGRAD /\ [][NextGRAD]_vars

(***************************************************************************)
(* mapadd and zeros_like on values: numbers, None, ZERO, tuples of at most *)
(* MaxLen of these, and one-element tuples holding such a tuple.           *)
(***************************************************************************)
Atoms == {Num(1), Num(2), None, ZERO}

TuplesOf(S) == UNION {{Tup(t) : t \in [1..n -> S]} : n \in 0..MaxLen}

Values == Atoms \cup TuplesOf(Atoms) \cup {Tup(<<v>>) : v \in TuplesOf(Atoms)}

InitMapadd ==
    /\ pc = "init"
    /\ \E x \in Values : \E y \in Values : args = <<x, y>>
    /\ nargs_closure = 0
    /\ Idle
    /\ out = None
    /\ back = None
    /\ NoMetaGraphs

\* y = zeros_like(x)
ZerosLike ==
    /\ pc = "init"
    /\ ~IsErr(zeros_like(args[1]))
    /\ args' = <<args[1], zeros_like(args[1])>>
    /\ pc' = "zeroed"
    /\ UNCHANGED <<primal, nargs_closure, grad, env, result, out, back,
                 metagraphs, graphs, calls>>

\* mapadd(x, y)
Mapadd ==
    /\ pc \in {"init", "zeroed"}
    /\ out' = mapadd(args[1], args[2])
    /\ pc' = IF pc = "init" THEN "added" ELSE "zadded"
    /\ UNCHANGED <<primal, nargs_closure, grad, env, result, args, back,
                 metagraphs, graphs, calls>>

NextMapadd == ZerosLike \/ Mapadd

SpecMapadd == InitMapadd /\ [][NextMapadd]_vars

(***************************************************************************)
(* J and Jinv on values, with one top-level function f (a Lambda of one    *)
(* binding) in the environment.                                            *)
(***************************************************************************)
Scalars == {Num(1), Num(2)}

StoredArgs(n) == UNION {[1..k -> Scalars] : k \in 0..n}

Liftables(n) ==
    Scalars \cup TuplesOf(Scalars) \cup {None, ZERO}
    \cup {FunctionImpl(fname), PrimitiveImpl("add")}
    \cup {ClosureImpl(FunctionImpl(fname), st) : st \in StoredArgs(n)}
    \cup {ClosureImpl(PrimitiveImpl("multiply"), st) : st \in StoredArgs(2)}

InitJ ==
    /\ pc = "init"
    /\ \E n \in 1..2 : \E b \in Bindings(n, 1, FALSE) :
         /\ primal = LetLambda(n, 1, <<b>>)
         /\ \E x \in Liftables(n) : args = <<x>>
    /\ nargs_closure = 0
    /\ grad = InitGrad
    /\ env = InitEnv(primal)
    /\ result = NoResult
    /\ out = None
    /\ back = None
    /\ NoMetaGraphs

\* out = J(x)
Lift ==
    /\ pc = "init"
    /\ \E j \in {J(env, args[1])} :
         /\ out' = j.r
         /\ env' = j.E
    /\ pc' = "lifted"
    /\ UNCHANGED <<primal, nargs_closure, grad, result, args, back,
                 metagraphs, graphs, calls>>

\* back = Jinv(out)
Unlift ==
    /\ pc = "lifted"
    /\ ~IsErr(out)
    /\ back' = Jinv(env, out)
    /\ pc' = "unlifted"
    /\ UNCHANGED <<primal, nargs_closure, grad, env, result, args, out,
                 metagraphs, graphs, calls>>

NextJ == Lift \/ Unlift

SpecJ == InitJ /\ [][NextJ]_vars

(***************************************************************************)
(* Grad on input Lambdas that may make transform raise: a Closure over a   *)
(* local variable, a Closure over a primitive without gradient, an operand *)
(* that is not a leaf, a right-hand side of a kind phi does not know, a    *)
(* body that is not a Symbol.  The environment also holds a function g,    *)
(* which transforms, and a function h, which does not.                     *)
(***************************************************************************)
gname == Symbol("g", "global", 0, "")

hname == Symbol("h", "global", 0, "")

GLambda ==
    Lambda(<<lsym("x")>>, TRUE,
           <<<<lsym("t1"), Apply(bsym("multiply"), <<lsym("x"), lsym("x")>>)>>>>,
           lsym("t1"), gname, NoSymbol)

HLambda == Lambda(<<lsym("x")>>, FALSE, <<>>, Value(2), hname, NoSymbol)

ClosureRHS(n, j) ==
    {Closure(f, <<u>>) : f \in {bsym("add"), gname}, u \in Scope(n, j)}

RaisingRHS(n, j) ==
    {Closure(u, <<w>>) : u \in Scope(n, j), w \in Scope(n, j)}
    \cup {Closure(f, <<u>>) : f \in {bsym("ones_like"), hname}, u \in Scope(n, j)}
    \cup {Apply(bsym("add"), <<Apply(bsym("add"), <<u, u>>), u>>) : u \in Scope(n, j)}
    \cup {Closure(bsym("add"), <<Tuple(<<u>>)>>) : u \in Scope(n, j)}
    \cup {Node("Lambda", "", "", 0, "", <<>>)}

MayRaiseBindings(n, j) ==
    {[pair |-> FALSE, rhs |-> r] :
        r \in Scope(n, j) \cup ApplyRHS(n, j) \cup ClosureRHS(n, j) \cup RaisingRHS(n, j)}

InitEnvGH(p) ==
    [global_env |-> (fname :> p) @@ (gname :> GLambda) @@ (hname :> HLambda),
     root_globals |-> (fname :> p) @@ (gname :> GLambda) @@ (hname :> HLambda),
     gen |-> EmptyMap, cache |-> EmptyMap]

InitMayRaise ==
    /\ pc = "init"
    /\ \E n \in 1..2 :
         /\ \/ \E v \in {Value(2), Apply(bsym("add"), <<lsym("x"), lsym("x")>>)} :
                  primal = Lambda(Params(n), FALSE, <<>>, v, fname, NoSymbol)
            \/ \E k \in 1..MaxBind : \E bs \in [1..k -> MayRaiseBindings(n, k)] :
                  /\ \A j \in 1..k : InScope(n, bs, j)
                  /\ primal = LetLambda(n, k, bs)
         /\ nargs_closure \in 0..n
    /\ grad = InitGrad
    /\ env = InitEnvGH(primal)
    /\ result = NoResult
    /\ args = <<>>
    /\ out = None
    /\ back = None
    /\ NoMetaGraphs

SpecMayRaise == InitMayRaise /\ [][Transform]_vars

(***************************************************************************)
(* The MetaGraph objects of myia/composite.py, after the module is loaded, *)
(* and calls of their generate_graph.                                      *)
(***************************************************************************)
MetaGraph(cls, name, scalar_op, entries) ==
    [cls |-> cls, name |-> name, scalar_op |-> scalar_op,
     cache |-> EmptyMap, entries |-> entries]

MetaGraphs ==
    [m \in {"add", "truediv", "exp", "tail", "list_map", "grad"} |->
       CASE m = "add" -> MetaGraph("Elemwise", "__add__", "scalar_add", <<>>)
         [] m = "truediv" -> MetaGraph("Elemwise", "__truediv__", "", <<>>)
         [] m = "exp" -> MetaGraph("MultitypeGraph", "exp", "",
                                   <<[sig |-> <<"Number">>, fn |-> "_exp"],
                                     [sig |-> <<"Array">>, fn |-> "array_exp"]>>)
         [] m = "tail" -> MetaGraph("Tail", "tail", "", <<>>)
         [] m = "list_map" -> MetaGraph("ListMap", "list_map", "", <<>>)
         [] m = "grad" -> MetaGraph("GradOperation", "grad", "", <<>>)]

generate_graph(mgs, gs, m, a) ==
    CASE mgs[m].cls = "Elemwise" -> Elemwise_generate_graph(mgs, gs, m, a)
      [] mgs[m].cls = "MultitypeGraph" -> MetaGraph_generate_graph(mgs, gs, m, a)
      [] mgs[m].cls = "Tail" -> Tail_generate_graph(mgs, gs, m, a)
      [] mgs[m].cls = "ListMap" -> ListMap_generate_graph(mgs, gs, m, a)
      [] mgs[m].cls = "GradOperation" -> GradOperation_generate_graph(mgs, gs, m, a)

MaxCalls == 3

Shapes == {<<2>>, <<3>>}

ElemwiseArgs(shapes) ==
    LET avs == {AbstractScalar("Int")} \cup {AbstractArray(s) : s \in shapes}
    IN {<<x, y>> : x \in avs, y \in avs}

MetaArgs(m) ==
    CASE m \in {"add", "truediv"} -> ElemwiseArgs(Shapes)
      [] m = "exp" ->
           {<<AbstractScalar("Int")>>, <<AbstractScalar("Bool")>>,
            <<AbstractArray(<<2>>)>>, <<AbstractScalar("Int"), AbstractScalar("Int")>>}
      [] m = "tail" ->
           {<<AbstractTuple(n)>> : n \in 0..3}
           \cup {<<AbstractScalar("Int")>>, <<AbstractTuple(2), AbstractTuple(2)>>}
      [] m = "list_map" ->
           {<<AbstractFunction("GraphFunction", 1)>>,
            <<AbstractFunction("GraphFunction", 1), AbstractList>>,
            <<AbstractFunction("GraphFunction", 2), AbstractList, AbstractList>>,
            <<AbstractFunction("GraphFunction", 1), AbstractScalar("Int")>>}
      [] m = "grad" ->
           {<<AbstractFunction("GraphFunction", n)>> : n \in 1..2}
           \cup {<<AbstractFunction("Primitive", 1)>>}

InitMeta ==
    /\ pc = "loaded"
    /\ primal = NoLambda
    /\ nargs_closure = 0
    /\ grad = InitGrad
    /\ env = EmptyEnv
    /\ result = NoResult
    /\ args = <<>>
    /\ out = None
    /\ back = None
    /\ metagraphs = MetaGraphs
    /\ graphs = <<>>
    /\ calls = <<>>

GenerateGraph(m, a) ==
    /\ Len(calls) < MaxCalls
    /\ \E r \in {generate_graph(metagraphs, graphs, m, a)} :
         /\ metagraphs' = r.mgs
         /\ graphs' = r.graphs
         /\ calls' = Append(calls, [mg |-> m, args |-> a, r |-> r.r, err |-> r.err,
                                    built |-> Len(r.graphs) - Len(graphs)])
    /\ UNCHANGED <<pc, primal, nargs_closure, grad, env, result, args, out, back>>

NextMeta == \E m \in DOMAIN metagraphs : \E a \in MetaArgs(m) : GenerateGraph(m, a)

SpecMeta == InitMeta /\ [][NextMeta]_vars

(***************************************************************************)
(* Calls of the gradient factories: x.grad(nargs_closure), through JX, of  *)
(* the primitives add and multiply and of the global functions f and g.    *)
(***************************************************************************)
MaxNargs == 1

FactoryFns ==
    {PrimitiveImpl("add"), PrimitiveImpl("multiply"),
     FunctionImpl(fname), FunctionImpl(gname)}

InitFactory ==
    /\ pc = "loaded"
    /\ primal = GLambda
    /\ nargs_closure = 0
    /\ grad = InitGrad
    /\ env = InitEnvGH(GLambda)
    /\ result = NoResult
    /\ args = <<>>
    /\ out = None
    /\ back = None
    /\ metagraphs = <<>>
    /\ graphs = <<>>
    /\ calls = <<>>

CallFactory(x, n) ==
    /\ Len(calls) < MaxCalls
    /\ \E r \in {JX(env, x, n)} :
         /\ env' = r.E
         /\ calls' = Append(calls, [fn |-> x, nargs |-> n, r |-> r.r])
    /\ UNCHANGED <<pc, primal, nargs_closure, grad, result, args, out, back,
                   metagraphs, graphs>>

NextFactory == \E x \in FactoryFns : \E n \in 0..MaxNargs : CallFactory(x, n)

SpecFactory == InitFactory /\ [][NextFactory]_vars

(***************************************************************************)
(* list_map: generating its Graph and evaluating it on a function and a    *)
(* list.                                                                   *)
(***************************************************************************)
MaxList == 3

MaxFuel == 3 * MaxList + 1

Lists == UNION {[1..n -> 1..3] : n \in 0..MaxList}

Evaluate(f, xs) ==
    /\ pc = "loaded"
    /\ Len(calls) > 0
    /\ calls[Len(calls)].err = ""
    /\ Len(calls[Len(calls)].args) = 2
    /\ \E r \in {run_call(graphs, GraphValue(calls[Len(calls)].r, EmptyMap),
                          <<FnValue(f), xs>>,
                          [ok |-> TRUE, fuel |-> MaxFuel, trace |-> <<>>, err |-> ""])} :
         /\ out' = [ok |-> r.S.ok, v |-> r.v, trace |-> r.S.trace]
         /\ back' = [err |-> r.S.err]
    /\ args' = [f |-> f, xs |-> xs]
    /\ pc' = "evaluated"
    /\ UNCHANGED <<primal, nargs_closure, grad, env, result,
                   metagraphs, graphs, calls>>

NextListMap ==
    \/ \E a \in MetaArgs("list_map") : GenerateGraph("list_map", a)
    \/ \E f \in {"inc", "square"} : \E xs \in Lists : Evaluate(f, xs)

SpecListMap == InitMeta /\ [][NextListMap]_vars

(***************************************************************************)
(* Elemwise on scalars and on arrays of known and unknown shapes.          *)
(***************************************************************************)
ElemwiseShapes == {<<1>>, <<3>>, <<ANYTHING>>, <<2, 3>>}

NextElemwise ==
    \E m \in {"add", "truediv"} : \E a \in ElemwiseArgs(ElemwiseShapes) :
        GenerateGraph(m, a)

SpecElemwise == InitMeta /\ [][NextElemwise]_vars

(***************************************************************************)
(* A MultitypeGraph: registrations of functions for type patterns, and     *)
(* dispatches on argument types, as __call__ and generate_from_types do.   *)
(***************************************************************************)
MaxEntries == 3

FnNames == <<"fn1", "fn2", "fn3">>

TypeTuples(types) == {<<t>> : t \in types} \cup {<<t, u>> : t \in types, u \in types}

InitMultitype ==
    /\ pc = "loaded"
    /\ primal = NoLambda
    /\ nargs_closure = 0
    /\ grad = InitGrad
    /\ env = EmptyEnv
    /\ result = NoResult
    /\ args = <<>>
    /\ out = [fn |-> "", err |-> ""]
    /\ back = None
    /\ metagraphs = [m \in {"exp"} |-> MetaGraph("MultitypeGraph", "exp", "", <<>>)]
    /\ graphs = <<>>
    /\ calls = <<>>

Register(types) ==
    /\ Len(metagraphs["exp"].entries) < MaxEntries
    /\ metagraphs' = register(metagraphs, "exp", types,
                              FnNames[Len(metagraphs["exp"].entries) + 1])
    /\ pc' = "registered"
    /\ UNCHANGED <<primal, nargs_closure, grad, env, result, args, out, back,
                   graphs, calls>>

Dispatch(types) ==
    /\ args' = types
    /\ \E i \in {MultitypeGraph_getfn(metagraphs["exp"].entries, types, 1)} :
         out' = IF i = 0 THEN [fn |-> "", err |-> "GraphGenerationError"]
                ELSE [fn |-> metagraphs["exp"].entries[i].fn, err |-> ""]
    /\ pc' = "dispatched"
    /\ UNCHANGED <<primal, nargs_closure, grad, env, result, back,
                   metagraphs, graphs, calls>>

NextMultitype ==
    \/ \E types \in TypeTuples({"Number", "Int", "Bool"}) : Register(types)
    \/ \E types \in TypeTuples({"Int", "Float", "Bool"}) : Dispatch(types)

SpecMultitype == InitMultitype /\ [][NextMultitype]_vars

(***************************************************************************)
(* GradOperation.make_gf for a function of n parameters, in each of its    *)
(* modes, inside a builder as generate_graph makes it, and a call of the   *)
(* df it built.                                                            *)
(***************************************************************************)
MaxParams == 3

Sensitivity == NumValue(7)

MakeGf(n, sens_param, get_all, apply_j) ==
    /\ Len(graphs) < 2 * MaxCalls
    /\ \E b \in {Len(graphs) + 1} :
         graphs' = graphs \o
           <<Graph("grad", 1, GraphConstant(b + 1), FALSE),
             make_gf(b + 1,
                     IF apply_j THEN Parameter(b, 1)
                     ELSE apply(Constant("J"), <<Parameter(b, 1)>>),
                     n, sens_param, get_all, apply_j)>>
    /\ args' = [n |-> n, sens_param |-> sens_param, get_all |-> get_all,
                apply_j |-> apply_j]
    /\ pc' = "built"
    /\ UNCHANGED <<primal, nargs_closure, grad, env, result, out, back,
                   metagraphs, calls>>

\* The builder is called on the function, and the df it returns on the
\* inputs 1..n, and on the sensitivity when df takes one.
CallDf ==
    /\ pc = "built"
    /\ \E df \in {run_call(graphs, GraphValue(Len(graphs) - 1, EmptyMap),
                           <<GFn(args.n)>>,
                           [ok |-> TRUE, fuel |-> MaxFuel, trace |-> <<>>, err |-> ""])} :
       \E r \in {run_call(graphs, df.v,
                          [i \in 1..args.n |-> NumValue(i)]
                            \o (IF args.sens_param THEN <<Sensitivity>> ELSE <<>>),
                          df.S)} :
         out' = [ok |-> r.S.ok, v |-> r.v, trace |-> r.S.trace]
    /\ pc' = "called"
    /\ UNCHANGED <<primal, nargs_closure, grad, env, result, args, back,
                   metagraphs, graphs, calls>>

NextGradOperation ==
    \/ \E n \in 1..MaxParams : \E s \in BOOLEAN : \E a \in BOOLEAN : \E j \in BOOLEAN :
          MakeGf(n, s, a, j)
    \/ CallDf

SpecGradOperation == InitMeta /\ [][NextGradOperation]_vars

(***************************************************************************)
(* Grad.accum_multi on its own: a batch of variables and constants, some   *)
(* of the variables holding a sensitivity already, and the value           *)
(* dout accumulated into them.  args is the batch, out the Grad object     *)
(* before the call, result.backward the bindings returned.                 *)
(***************************************************************************)
MaxBatch == 3

BatchVars == {lsym("x"), lsym("y")}

Batches == UNION {[1..k -> BatchVars \cup {Value(2)}] : k \in 1..MaxBatch}

\* The Grad object after new_sensitivity_var for x, for y, for both or for
\* neither.
Accumulated ==
    {InitGrad}
    \cup {new_sensitivity_var(InitGrad, v).G : v \in BatchVars}
    \cup {new_sensitivity_var(new_sensitivity_var(InitGrad, lsym("x")).G, lsym("y")).G}

InitAccum ==
    /\ pc = "init"
    /\ args \in Batches
    /\ grad \in Accumulated
    /\ out = grad
    /\ primal = NoLambda
    /\ nargs_closure = 0
    /\ env = EmptyEnv
    /\ result = NoResult
    /\ back = None
    /\ NoMetaGraphs

\* bindings = G.accum_multi(vars, dout)
AccumMulti ==
    /\ pc = "init"
    /\ \E a \in {accum_multi(grad @@ [env |-> env], args, lsym("dout"))} :
          /\ grad' = [f \in GradFields |-> a.G[f]]
          /\ env' = a.G.env
          /\ result' = [NoResult EXCEPT !.ok = TRUE, !.backward = a.r]
    /\ pc' = "accumulated"
    /\ UNCHANGED <<primal, nargs_closure, args, out, back,
                 metagraphs, graphs, calls>>

NextAccum == AccumMulti

SpecAccum == InitAccum /\ [][NextAccum]_vars

(***************************************************************************)
(* The calls JX -> make_grad -> Grad.transform -> phi -> JX, one step at a *)
(* time.  calls is the stack of the transforms in progress: the function,  *)
(* its nargs_closure and the binding phi is at.  env.cache holds the       *)
(* (function, nargs_closure) pairs make_grad has stored, which it does     *)
(* after transform has returned.  The interpreter gives up with a          *)
(* RecursionError when the stack would exceed MaxDepth.                    *)
(***************************************************************************)
MaxDepth == 4

FnLambda(ref, rhss) ==
    Lambda(<<lsym("x")>>, TRUE,
           [j \in 1..Len(rhss) |-> <<lsym(LetNames[j]), rhss[j]>>],
           lsym(LetNames[Len(rhss)]), ref, NoSymbol)

\* Bindings of f and g: a call, a closure over a primitive, a closure over
\* f or over g.
RecursiveRHS ==
    {Apply(bsym("add"), <<lsym("x"), lsym("x")>>),
     Closure(bsym("add"), <<lsym("x")>>),
     Closure(fname, <<lsym("x")>>),
     Closure(gname, <<lsym("x")>>)}

RecursiveBodies == UNION {[1..k -> RecursiveRHS] : k \in 1..MaxBind}

Frame(f, n, i) == [f |-> f, nargs_closure |-> n, i |-> i]

CacheKeyOf(fr) == <<fr.f.label, fr.nargs_closure>>

InitJX ==
    /\ pc = "init"
    /\ \E bf \in RecursiveBodies : \E bg \in RecursiveBodies :
         /\ primal = FnLambda(fname, bf)
         /\ env = [global_env |-> (fname :> primal) @@ (gname :> FnLambda(gname, bg)),
                   root_globals |-> (fname :> primal) @@ (gname :> FnLambda(gname, bg)),
                   gen |-> EmptyMap, cache |-> EmptyMap]
    /\ nargs_closure \in 0..1
    /\ grad = InitGrad
    /\ result = NoResult
    /\ args = <<>>
    /\ out = None
    /\ back = None
    /\ metagraphs = <<>> /\ graphs = <<>> /\ calls = <<>>

\* JX(f, nargs_closure): nothing is cached, make_grad starts the transform.
RequestGrad ==
    /\ pc = "init"
    /\ calls' = <<Frame(fname, nargs_closure, 1)>>
    /\ pc' = "running"
    /\ UNCHANGED <<primal, nargs_closure, grad, env, result, args, out, back,
                 metagraphs, graphs>>

Top == calls[Len(calls)]

TopBindings == env.global_env[Top.f].bindings

\* The pair JX is called with by phi on the binding the top transform is
\* at, when that binding is a Closure over a function that make_grad has
\* not cached.
Uncached ==
    LET rhs == TopBindings[Top.i][2]
        fn == evaluate_sym(env, rhs.sub[1])
    IN /\ rhs.t = "Closure"
       /\ fn.k = "func"
       /\ <<fn.f, Len(ArgsOf(rhs))>> \notin DOMAIN env.cache

\* phi on a binding that starts no transform: not a Closure, a Closure over
\* a primitive, or one whose gradient make_grad finds in its cache.
PhiBinding ==
    /\ pc = "running"
    /\ Top.i <= Len(TopBindings)
    /\ ~Uncached
    /\ calls' = [calls EXCEPT ![Len(calls)].i = @ + 1]
    /\ UNCHANGED <<pc, primal, nargs_closure, grad, env, result, args, out, back,
                 metagraphs, graphs>>

\* phi on a Closure over an uncached function: JX -> make_grad ->
\* Grad(...).transform() starts inside the transform in progress.
EnterTransform ==
    /\ pc = "running"
    /\ Top.i <= Len(TopBindings)
    /\ Uncached
    /\ Len(calls) < MaxDepth
    /\ LET rhs == TopBindings[Top.i][2]
       IN calls' = Append(calls, Frame(rhs.sub[1], Len(ArgsOf(rhs)), 1))
    /\ UNCHANGED <<pc, primal, nargs_closure, grad, env, result, args, out, back,
                 metagraphs, graphs>>

\* The same call with the stack exhausted.
RecursionError ==
    /\ pc = "running"
    /\ Top.i <= Len(TopBindings)
    /\ Uncached
    /\ Len(calls) = MaxDepth
    /\ pc' = "RecursionError"
    /\ UNCHANGED <<primal, nargs_closure, grad, env, result, args, out, back,
                 metagraphs, graphs, calls>>

\* transform returns; make_grad stores the gradient in its cache and phi of
\* the caller goes on.
ReturnGrad ==
    /\ pc = "running"
    /\ Top.i > Len(TopBindings)
    /\ env' = [env EXCEPT !.cache = (CacheKeyOf(Top) :> Top.f) @@ env.cache]
    /\ IF Len(calls) = 1
       THEN calls' = <<>> /\ pc' = "returned"
       ELSE /\ calls' = [SubSeq(calls, 1, Len(calls) - 1)
                           EXCEPT ![Len(calls) - 1].i = @ + 1]
            /\ pc' = pc
    /\ UNCHANGED <<primal, nargs_closure, grad, result, args, out, back,
                 metagraphs, graphs>>

NextJX == RequestGrad \/ PhiBinding \/ EnterTransform \/ RecursionError \/ ReturnGrad

SpecJX == InitJX /\ [][NextJX]_vars

(***************************************************************************)
(* Optimizer (myia/pipeline/steps.py).  args is the Optimizer object and   *)
(* whether step is given an argspec; result holds the locals of step: the  *)
(* lap counter, the position in self.phases, changes, and the number of    *)
(* calls of keep_roots; calls logs every phase run: its lap, its position  *)
(* and whether it reported a change.  A phase other than 'renormalize'     *)
(* reports a change or not; MaxChanges bounds the changes the graph        *)
(* admits.                                                                 *)
(***************************************************************************)
MaxChanges == 2

MaxPhases == 3

\* Optimizer.__init__ without the rule for a single phase.
Optimizer_as_given(phases, run_only_once) ==
    [phases |-> phases, run_only_once |-> run_only_once]

\* Optimizer.__init__: an optimizer of one phase runs only once.
Optimizer(phases, run_only_once) ==
    [phases |-> phases, run_only_once |-> run_only_once \/ Len(phases) = 1]

PhaseLists == UNION {[1..n -> {"renormalize", "opt"}] : n \in 1..MaxPhases}

InitOptimizer ==
    /\ pc = "while"
    /\ \E ps \in PhaseLists : \E once \in BOOLEAN : \E argspec \in BOOLEAN :
         args = [self |-> Optimizer(ps, once), argspec |-> argspec]
    /\ \E left \in 0..MaxChanges :
         result = [lap |-> 0, i |-> 0, changes |-> TRUE, left |-> left, keep_roots |-> 0]
    /\ primal = NoLambda
    /\ nargs_closure = 0
    /\ grad = InitGrad
    /\ env = EmptyEnv
    /\ out = None
    /\ back = None
    /\ metagraphs = <<>> /\ graphs = <<>> /\ calls = <<>>

\* while changes: the next lap starts with changes = False.
BeginLap ==
    /\ pc = "while"
    /\ result.changes
    /\ result' = [result EXCEPT !.lap = @ + 1, !.i = 1, !.changes = FALSE]
    /\ pc' = "for"
    /\ UNCHANGED <<primal, nargs_closure, grad, env, args, out, back,
                 metagraphs, graphs, calls>>

\* while changes: no phase changed the graph in the lap before.
EndWhile ==
    /\ pc = "while"
    /\ ~result.changes
    /\ pc' = "keep_roots"
    /\ UNCHANGED <<primal, nargs_closure, grad, env, result, args, out, back,
                 metagraphs, graphs, calls>>

Phase == args.self.phases[result.i]

\* opt == 'renormalize': the graph is renormalized, changes is left alone.
Renormalize ==
    /\ pc = "for"
    /\ result.i <= Len(args.self.phases)
    /\ Phase = "renormalize"
    /\ args.argspec
    /\ calls' = Append(calls, [lap |-> result.lap, i |-> result.i, changed |-> FALSE])
    /\ result' = [result EXCEPT !.i = @ + 1]
    /\ UNCHANGED <<pc, primal, nargs_closure, grad, env, args, out, back,
                 metagraphs, graphs>>

\* assert argspec is not None
RenormalizeWithoutArgspec ==
    /\ pc = "for"
    /\ result.i <= Len(args.self.phases)
    /\ Phase = "renormalize"
    /\ ~args.argspec
    /\ pc' = "AssertionError"
    /\ UNCHANGED <<primal, nargs_closure, grad, env, result, args, out, back,
                 metagraphs, graphs, calls>>

\* elif opt(graph): changes = True
RunPhase ==
    /\ pc = "for"
    /\ result.i <= Len(args.self.phases)
    /\ Phase # "renormalize"
    /\ \E changed \in BOOLEAN :
         /\ changed => result.left > 0
         /\ calls' = Append(calls, [lap |-> result.lap, i |-> result.i,
                                    changed |-> changed])
         /\ result' = [result EXCEPT !.i = @ + 1,
                                     !.changes = @ \/ changed,
                                     !.left = IF changed THEN @ - 1 ELSE @]
    /\ UNCHANGED <<pc, primal, nargs_closure, grad, env, args, out, back,
                 metagraphs, graphs>>

\* The end of the for loop: break when run_only_once, else back to while.
EndLap ==
    /\ pc = "for"
    /\ result.i > Len(args.self.phases)
    /\ pc' = IF args.self.run_only_once THEN "keep_roots" ELSE "while"
    /\ UNCHANGED <<primal, nargs_closure, grad, env, result, args, out, back,
                 metagraphs, graphs, calls>>

\* self.resources.manager.keep_roots(graph); return res
KeepRoots ==
    /\ pc = "keep_roots"
    /\ result' = [result EXCEPT !.keep_roots = @ + 1]
    /\ pc' = "returned"
    /\ UNCHANGED <<primal, nargs_closure, grad, env, args, out, back,
                 metagraphs, graphs, calls>>

NextOptimizer ==
    \/ BeginLap \/ EndWhile \/ Renormalize \/ RenormalizeWithoutArgspec
    \/ RunPhase \/ EndLap \/ KeepRoots

\* step runs to its end: it is one call, not interrupted.
SpecOptimizer == InitOptimizer /\ [][NextOptimizer]_vars /\ WF_vars(NextOptimizer)

(***************************************************************************)
(* Pipeline steps (myia/pipeline/steps.py).  A graph is known by the       *)
(* primitives it applies, the types of its parameters and the type of its  *)
(* output.  result is the state of the pipeline run: the keys the steps    *)
(* have returned so far; args holds the steps selected and the graph       *)
(* the front end made of the input; calls logs the steps that returned.    *)
(* validate, erase_class, erase_tuple and the driver that feeds each step  *)
(* the keys it names and merges what it returns are modelled from their    *)
(* description.                                                            *)
(***************************************************************************)
MaxSteps == 4

AbstractT(kind, n) == [kind |-> kind, n |-> n]

Int64 == AbstractT("Int", 0)

\* tests/test_validate.py: test_whitelist.
test_whitelist ==
    {"scalar_add", "scalar_sub", "scalar_mul", "scalar_div", "make_tuple",
     "tuple_getitem", "bool_and", "scalar_lt", "list_len", "list_append",
     "list_getitem", "make_list", "partial", "switch", "return"}

\* A scalar that is not a String, or a Tuple of such.
validate_abstract(t) == t.kind \in {"Int", "Tuple"}

TypesOf(g) == {g.params[i] : i \in 1..Len(g.params)} \cup {g.out}

\* validate(graph, whitelist, validate_abstract): the error raised, if any.
validate(g, whitelist) ==
    IF (\E op \in g.ops : op \notin whitelist)
       \/ (\E t \in TypesOf(g) : ~validate_abstract(t))
    THEN "ValidationError" ELSE ""

EraseClassT(t) == IF t.kind = "Class" THEN AbstractT("Tuple", t.n) ELSE t

\* erase_class(graph, mng): records become tuples.
erase_class(g) ==
    [ops |-> {IF op = "make_record" THEN "make_tuple"
              ELSE IF op = "getattr" THEN "tuple_getitem" ELSE op : op \in g.ops},
     params |-> [i \in 1..Len(g.params) |-> EraseClassT(g.params[i])],
     out |-> EraseClassT(g.out)]

RECURSIVE ExpandTuples(_, _)
ExpandTuples(params, i) ==
    IF i > Len(params) THEN <<>>
    ELSE (IF params[i].kind = "Tuple" THEN [j \in 1..params[i].n |-> Int64]
          ELSE <<params[i]>>) \o ExpandTuples(params, i + 1)

\* erase_tuple(graph, mng): a Tuple parameter becomes one parameter for each
\* of its elements.
erase_tuple(g) == [g EXCEPT !.params = ExpandTuples(g.params, 1)]

Raise(st, err) == [st EXCEPT !.error = err]

\* step_erase_class that sets the flag and leaves the graph as it is.
step_erase_class_flag_only(st) ==
    [st EXCEPT !.orig_argspec = st.argspec, !.orig_outspec = st.outspec,
               !.erase_class = TRUE]

step_erase_class(st) ==
    LET graph == erase_class(st.graph)
    IN [st EXCEPT !.graph = graph,
                  !.orig_argspec = st.argspec, !.argspec = graph.params,
                  !.orig_outspec = st.outspec, !.outspec = graph.out,
                  !.erase_class = TRUE]

\* step_erase_tuple without its assertion.
step_erase_tuple_unchecked(st) ==
    LET graph == erase_tuple(st.graph)
    IN [st EXCEPT !.graph = graph, !.argspec = graph.params,
                  !.outspec = graph.out, !.erase_tuple = TRUE]

step_erase_tuple(st) ==
    IF ~st.erase_class THEN Raise(st, "AssertionError")
    ELSE LET graph == erase_tuple(st.graph)
         IN [st EXCEPT !.graph = graph, !.argspec = graph.params,
                       !.outspec = graph.out, !.erase_tuple = TRUE]

\* Validator.step with the whitelist the pipeline is configured with.
Validator_step(st, whitelist) ==
    IF validate(st.graph, whitelist) # "" THEN Raise(st, validate(st.graph, whitelist))
    ELSE st

\* DebugVMExporter.step: output is the callable of the graph.
DebugVMExporter_step(st) ==
    [st EXCEPT !.output = [wrapped |-> FALSE, orig_arg_t |-> <<>>,
                           orig_out_t |-> st.graph.out, graph |-> st.graph]]

\* step_wrap: orig_argspec or argspec, orig_outspec or outspec.
step_wrap(st) ==
    IF ~(st.erase_class /\ st.erase_tuple) THEN Raise(st, "AssertionError")
    ELSE [st EXCEPT !.output =
            [wrapped |-> TRUE,
             orig_arg_t |-> IF st.orig_argspec # <<>> THEN st.orig_argspec
                            ELSE st.argspec,
             orig_out_t |-> IF st.orig_outspec.kind # "None" THEN st.orig_outspec
                            ELSE st.outspec,
             graph |-> st.graph]]

StepNames == {"erase_class", "erase_tuple", "validate", "debug_export", "wrap"}

run_step(name, st) ==
    CASE name = "erase_class" -> step_erase_class(st)
      [] name = "erase_tuple" -> step_erase_tuple(st)
      [] name = "validate" -> Validator_step(st, test_whitelist)
      [] name = "debug_export" -> DebugVMExporter_step(st)
      [] name = "wrap" -> step_wrap(st)

\* The graphs of the programs: what they apply, a pair of integers, a
\* record or nothing as parameters, an integer, a string or a record as
\* output.
Programs ==
    [ops : SUBSET {"scalar_add", "scalar_pow", "make_record", "getattr"},
     params : {<<>>, <<Int64, Int64>>, <<AbstractT("Class", 2)>>},
     out : {Int64, AbstractT("String", 0), AbstractT("Class", 2)}]

\* The selections of steps that follow parse, infer and specialize; wrap
\* takes the output of an export before it.
Selections ==
    {s \in UNION {[1..n -> StepNames] : n \in 1..MaxSteps} :
        \A i \in 1..Len(s) :
            s[i] = "wrap" => \E j \in 1..(i - 1) : s[j] = "debug_export"}

\* The state after parse, infer and specialize.
InitPipeline ==
    /\ pc = "run"
    /\ \E p \in Programs : \E s \in Selections :
         /\ args = [steps |-> s, input |-> p]
         /\ result = [graph |-> p, argspec |-> p.params, outspec |-> p.out,
                      orig_argspec |-> <<>>, orig_outspec |-> AbstractT("None", 0),
                      erase_class |-> FALSE, erase_tuple |-> FALSE,
                      output |-> [wrapped |-> FALSE, orig_arg_t |-> <<>>,
                                  orig_out_t |-> AbstractT("None", 0), graph |-> p],
                      error |-> ""]
    /\ primal = NoLambda
    /\ nargs_closure = 0
    /\ grad = InitGrad
    /\ env = EmptyEnv
    /\ out = None
    /\ back = None
    /\ metagraphs = <<>> /\ graphs = <<>> /\ calls = <<>>

\* The next step of the run returns and its keys are merged into the state.
RunStep ==
    /\ pc = "run"
    /\ Len(calls) < Len(args.steps)
    /\ \E r \in {run_step(args.steps[Len(calls) + 1], result)} :
         /\ r.error = ""
         /\ result' = r
    /\ calls' = Append(calls, args.steps[Len(calls) + 1])
    /\ UNCHANGED <<pc, primal, nargs_closure, grad, env, args, out, back,
                 metagraphs, graphs>>

\* The next step raises: the run ends with the error.
StepRaises ==
    /\ pc = "run"
    /\ Len(calls) < Len(args.steps)
    /\ \E r \in {run_step(args.steps[Len(calls) + 1], result)} :
         /\ r.error # ""
         /\ result' = r
    /\ pc' = "failed"
    /\ UNCHANGED <<primal, nargs_closure, grad, env, args, out, back,
                 metagraphs, graphs, calls>>

\* All steps have returned.
EndRun ==
    /\ pc = "run"
    /\ Len(calls) = Len(args.steps)
    /\ pc' = "done"
    /\ UNCHANGED <<primal, nargs_closure, grad, env, result, args, out, back,
                 metagraphs, graphs, calls>>

NextPipeline == RunStep \/ StepRaises \/ EndRun

SpecPipeline == InitPipeline /\ [][NextPipeline]_vars

(***************************************************************************)
(* int_floordiv (myia/composite.py) on integers between -MaxInt and        *)
(* MaxInt.  scalar_div on integers truncates toward zero.  args is (x, y), *)
(* out the quotient returned.                                              *)
(***************************************************************************)
MaxInt == 6

Abs(x) == IF x < 0 THEN -x ELSE x

scalar_div(x, y) ==
    IF (x < 0) = (y < 0) THEN Abs(x) \div Abs(y) ELSE -(Abs(x) \div Abs(y))

int_floordiv(x, y) ==
    IF (x <= 0) = (y <= 0) THEN scalar_div(x, y) ELSE scalar_div(x, y) - 1

InitFloordiv ==
    /\ pc = "init"
    /\ \E x \in (-MaxInt)..MaxInt : \E y \in ((-MaxInt)..MaxInt) \ {0} :
         args = <<x, y>>
    /\ primal = NoLambda
    /\ nargs_closure = 0
    /\ grad = InitGrad
    /\ env = EmptyEnv
    /\ result = NoResult
    /\ out = None
    /\ back = None
    /\ metagraphs = <<>> /\ graphs = <<>> /\ calls = <<>>

\* out = int_floordiv(x, y)
IntFloordiv ==
    /\ pc = "init"
    /\ out' = int_floordiv(args[1], args[2])
    /\ pc' = "divided"
    /\ UNCHANGED <<primal, nargs_closure, grad, env, result, args, back,
                 metagraphs, graphs, calls>>

NextFloordiv == IntFloordiv

SpecFloordiv == InitFloordiv /\ [][NextFloordiv]_vars

(***************************************************************************)
(* Reference semantics of the input functions: the value of the function   *)
(* and its partial derivative in parameter i, by forward propagation of    *)
(* (value, derivative) pairs through the bindings.                         *)
(***************************************************************************)
RefLeaf(loc, leaf) == IF leaf.t = "Value" THEN [v |-> leaf.ver, d |-> 0] ELSE loc[leaf]

RECURSIVE RefBindings(_, _, _)
RefBindings(loc, bindings, j) ==
    IF j > Len(bindings) THEN loc
    ELSE LET rhs == bindings[j][2]
             a == RefLeaf(loc, rhs.sub[2])
             b == RefLeaf(loc, rhs.sub[3])
             r == IF rhs.sub[1].label = "add"
                  THEN [v |-> a.v + b.v, d |-> a.d + b.d]
                  ELSE [v |-> a.v * b.v, d |-> a.d * b.v + a.v * b.d]
         IN RefBindings((bindings[j][1] :> r) @@ loc, bindings, j + 1)

RefRun(P, ins, i) ==
    LET loc0 == [p \in {P.args[j] : j \in 1..Len(P.args)} |->
                    LET j == CHOOSE j \in 1..Len(P.args) : P.args[j] = p
                    IN [v |-> ins[j].n, d |-> IF j = i THEN 1 ELSE 0]]
    IN RefBindings(loc0, P.bindings, 1)[P.body]

RefValue(P, ins) == RefRun(P, ins, 0).v

RefGrads(P, ins) == [i \in 1..Len(P.args) |-> Num(RefRun(P, ins, i).d)]

IsBackpropagatorOf(v) ==
    /\ v.k = "clos"
    /\ RefOf(FnOf(v)) = result.backp_sym

\* C1: for a straight-line function of add and multiply transformed with
\* nargs_closure = 0, the augmented function returns (f(inputs), bprop) and
\* bprop(1) returns ((), df/da1, ..., df/dan).
C1_StraightLineGradient ==
    nargs_closure = 0 =>
      /\ pc \in {"called", "done"} =>
           /\ out.k = "tup" /\ Len(out.t) = 2
           /\ out.t[1] = Num(RefValue(primal, args))
           /\ IsBackpropagatorOf(out.t[2])
      /\ pc = "done" => back = Tup(<<Tup(<<>>)>> \o RefGrads(primal, args))

\* x * y at (3, 4) gives ((), 4, 3).
C1_Witness ==
    /\ pc = "done" /\ nargs_closure = 0
    /\ primal = CallLambda(2, <<Apply(bsym("multiply"), <<lsym("x"), lsym("y")>>)>>)
    /\ args = <<Num(3), Num(4)>>
    /\ out.t[1] = Num(12)
    /\ back = Tup(<<Tup(<<>>), Num(4), Num(3)>>)

\* C2: with nargs_closure = k the function is called as a closure storing
\* its first k arguments; the backpropagator returns the gradients of the
\* stored arguments grouped as the first element, the other n - k after it.
C2_ClosureGradientRouting ==
    /\ pc \in {"called", "done"} =>
         /\ out.k = "tup" /\ Len(out.t) = 2
         /\ out.t[1] = Num(RefValue(primal, args))
    /\ pc = "done" =>
         back = Tup(<<Tup(SubSeq(RefGrads(primal, args), 1, nargs_closure))>>
                    \o SubSeq(RefGrads(primal, args), nargs_closure + 1, Len(args)))

\* h(x, y, z) = x * y + z with k = 1 at (2, 3, 4) gives ((3,), 2, 1).
C2_Witness ==
    /\ pc = "done" /\ nargs_closure = 1
    /\ primal = CallLambda(3, <<Apply(bsym("multiply"), <<lsym("x"), lsym("y")>>),
                               Apply(bsym("add"), <<lsym("t1"), lsym("z")>>)>>)
    /\ args = <<Num(2), Num(3), Num(4)>>
    /\ back = Tup(<<Tup(<<Num(3)>>), Num(2), Num(1)>>)

(***************************************************************************)
(* The two Lambdas a successful transform registered.                      *)
(***************************************************************************)
AugmFn == env.root_globals[result.augm_sym]

BackpFn == env.root_globals[result.backp_sym]

RECURSIVE ContainsZERO(_)
ContainsZERO(node) ==
    \/ node = ValueZERO
    \/ \E i \in 1..Len(node.sub) : ContainsZERO(node.sub[i])

IsMapadd(rhs) == rhs.t = "Apply" /\ rhs.sub[1] = bsym("mapadd")

\* C5: in the emitted backpropagator ZERO occurs only in the first operand
\* of a mapadd: not in a second operand of mapadd, not in the argument of a
\* saved backpropagator, not in any other right-hand side, not in the
\* returned tuple.
C5_ZeroOnlyFirstOperand ==
    pc = "transformed" =>
      /\ \A i \in 1..Len(BackpFn.bindings) :
           LET rhs == BackpFn.bindings[i][2]
           IN IF IsMapadd(rhs) THEN ~ContainsZERO(rhs.sub[3])
              ELSE ~ContainsZERO(rhs)
      /\ ~ContainsZERO(BackpFn.body)

\* A backpropagator in which ZERO does stand inside the first operand of a
\* mapadd whose second operand is a call of a saved backpropagator.
C5_Witness ==
    /\ pc = "transformed"
    /\ \E i \in 1..Len(BackpFn.bindings) :
         LET rhs == BackpFn.bindings[i][2]
         IN /\ IsMapadd(rhs)
            /\ ContainsZERO(rhs.sub[2])
            /\ rhs.sub[3].t = "Apply"

(***************************************************************************)
(* The symbols on the left-hand sides of a Lambda, in order, counting every *)
(* member of a deconstructing tuple.                                       *)
(***************************************************************************)
RECURSIVE LhsSymbols(_)
RECURSIVE LhsOfAll(_, _)
LhsOfAll(lhss, i) ==
    IF i > Len(lhss) THEN <<>> ELSE LhsSymbols(lhss[i]) \o LhsOfAll(lhss, i + 1)

LhsSymbols(lhs) == IF lhs.t = "Symbol" THEN <<lhs>> ELSE LhsOfAll(lhs.sub, 1)

RECURSIVE AllLhs(_, _)
AllLhs(bindings, i) ==
    IF i > Len(bindings) THEN <<>>
    ELSE LhsSymbols(bindings[i][1]) \o AllLhs(bindings, i + 1)

NoRepeat(syms) ==
    \A i \in 1..Len(syms) : \A j \in 1..Len(syms) : i # j => syms[i] # syms[j]

Named(syms) == SelectSeq(syms, LAMBDA v : v.ns # "null")

\* C9 as stated: no symbol at all appears twice on the left-hand sides of
\* the augmented function or of the backpropagator.
C9_SingleAssignmentAsStated ==
    pc = "transformed" =>
      /\ NoRepeat(AllLhs(AugmFn.bindings, 1))
      /\ NoRepeat(AllLhs(BackpFn.bindings, 1))

\* C9 (amended): no symbol other than the NULLSYM placeholder written for a
\* literal Value argument appears twice on the left-hand sides of the
\* augmented function or of the backpropagator.
C9_SingleAssignment ==
    pc = "transformed" =>
      /\ NoRepeat(Named(AllLhs(AugmFn.bindings, 1)))
      /\ NoRepeat(Named(AllLhs(BackpFn.bindings, 1)))

\* A backpropagator with a literal argument (NULLSYM on the left), a
\* repeated variable (a TMP_SENS temporary on the left) and a variable whose
\* sensitivity is assigned a second time.
C9_Witness ==
    /\ pc = "transformed"
    /\ \E i \in 1..Len(AllLhs(BackpFn.bindings, 1)) :
         AllLhs(BackpFn.bindings, 1)[i] = NullSym
    /\ \E i \in 1..Len(AllLhs(BackpFn.bindings, 1)) :
         AllLhs(BackpFn.bindings, 1)[i].rel = "TMP_SENS"
    /\ \E i \in 1..Len(AllLhs(BackpFn.bindings, 1)) :
         /\ AllLhs(BackpFn.bindings, 1)[i].rel = "SENS"
         /\ AllLhs(BackpFn.bindings, 1)[i].ver >= 2

\* Every sub-position of the expression is a Symbol or a Value.
Anf(rhs) == \A i \in 1..Len(rhs.sub) : IsLeaf(rhs.sub[i])

\* J(g) for a global symbol g.
IsLiftedGlobal(s) ==
    /\ s.t = "Apply" /\ Len(s.sub) = 2 /\ s.sub[1] = bsym("J")
    /\ s.sub[2].t = "Symbol" /\ IsGlobal(s.sub[2])

\* Jinv(v) for a variable v.
IsUnlifted(s) ==
    /\ s.t = "Apply" /\ Len(s.sub) = 2 /\ s.sub[1] = bsym("Jinv")
    /\ s.sub[2].t = "Symbol"

\* A tuple of Symbols and Values.
IsFlatTuple(s) == s.t = "Tuple" /\ Anf(s)

\* The call of a saved backpropagator on a sensitivity or on a tuple of them.
IsBpropCall(s) ==
    /\ s.t = "Apply" /\ Len(s.sub) = 2
    /\ s.sub[1].t = "Symbol" /\ s.sub[1].rel = "BPROP_CLOS"
    /\ IsLeaf(s.sub[2]) \/ IsFlatTuple(s.sub[2])

\* The nested forms of a right-hand side: a sub-position is a Symbol, a
\* Value, J(g), the Jinv(v) under zeros_like, the flat tuple that is the
\* first operand of mapadd, the flat tuple or backpropagator call that is
\* its second operand, or the flat tuple a backpropagator is called on.
NestedByDesign(rhs) ==
    \A i \in 1..Len(rhs.sub) :
        \/ IsLeaf(rhs.sub[i])
        \/ IsLiftedGlobal(rhs.sub[i])
        \/ rhs.t = "Apply" /\ rhs.sub[1] = bsym("zeros_like") /\ i = 2
             /\ IsUnlifted(rhs.sub[i])
        \/ IsMapadd(rhs) /\ i = 2 /\ IsFlatTuple(rhs.sub[i])
        \/ IsMapadd(rhs) /\ i = 3
             /\ (IsFlatTuple(rhs.sub[i]) \/ IsBpropCall(rhs.sub[i]))
        \/ IsBpropCall(rhs) /\ i = 2

\* C10 as stated: both emitted Lambdas are Lets whose right-hand sides have
\* only Symbols and Values in their sub-positions.
C10_AnfAsStated ==
    pc = "transformed" =>
      /\ AugmFn.isLet /\ BackpFn.isLet
      /\ \A i \in 1..Len(AugmFn.bindings) : Anf(AugmFn.bindings[i][2])
      /\ \A i \in 1..Len(BackpFn.bindings) : Anf(BackpFn.bindings[i][2])

\* C10 (amended): both emitted Lambdas are Lets whose right-hand sides hold
\* Symbols and Values in their sub-positions except for the nested forms the
\* transform emits by design: J(g) for a global g, Jinv(v) under zeros_like,
\* the tuple of previous sensitivities as first operand of mapadd, and as
\* its second operand a tuple of sensitivities or the call of a saved
\* backpropagator, whose argument may itself be a tuple of sensitivities.
C10_AnfButNestedForms ==
    pc = "transformed" =>
      /\ AugmFn.isLet /\ BackpFn.isLet
      /\ \A i \in 1..Len(AugmFn.bindings) : NestedByDesign(AugmFn.bindings[i][2])
      /\ \A i \in 1..Len(BackpFn.bindings) : NestedByDesign(BackpFn.bindings[i][2])

\* A transform that emitted each nested form: J(g) in a call, zeros_like of
\* Jinv, and mapadd of a tuple and a backpropagator call.
C10_Witness ==
    /\ pc = "transformed"
    /\ \E i \in 1..Len(AugmFn.bindings) :
         /\ AugmFn.bindings[i][2].t = "Apply"
         /\ AugmFn.bindings[i][2].sub[1].t = "Apply"
    /\ \E i \in 1..Len(BackpFn.bindings) :
         /\ BackpFn.bindings[i][2].t = "Apply"
         /\ BackpFn.bindings[i][2].sub[1] = bsym("zeros_like")
         /\ BackpFn.bindings[i][2].sub[2].t = "Apply"
    /\ \E i \in 1..Len(BackpFn.bindings) :
         /\ IsMapadd(BackpFn.bindings[i][2])
         /\ BackpFn.bindings[i][2].sub[2].t = "Tuple"
         /\ BackpFn.bindings[i][2].sub[3].t = "Apply"

\* C4: GRAD built by macro_grad_for(k) maps the gradients (g1, ..., gn) to
\* ((g1, ..., gk), g(k+1), ..., gn) for every 0 <= k <= n, and transform
\* groups the return tuple of the backpropagator in the same way.
C4_GradMacroGrouping ==
    /\ pc \in {"expanded", "grouped"} =>
         /\ out.t = "Tuple"
         /\ Len(out.sub) = 1 + Len(args) - nargs_closure
         /\ out.sub[1].t = "Tuple"
         /\ Len(out.sub[1].sub) = nargs_closure
         /\ \A i \in 1..nargs_closure : out.sub[1].sub[i] = args[i]
         /\ \A i \in 1..(Len(args) - nargs_closure) :
                out.sub[1 + i] = args[nargs_closure + i]
    /\ pc = "grouped" => back = out

\* GRAD(d * y, d * x) with k = 1 is ((d * y,), d * x), as backp_ret is.
C4_Witness ==
    /\ pc = "grouped" /\ nargs_closure = 1
    /\ args = <<Apply(bsym("multiply"), <<lsym("d"), lsym("y")>>),
                Apply(bsym("multiply"), <<lsym("d"), lsym("x")>>)>>
    /\ out = Tuple(<<Tuple(<<args[1]>>), args[2]>>)
    /\ back = out

\* C6: mapadd(ZERO, y) = y for every y other than ZERO (a scalar, a tuple, a
\* nested tuple or None), and mapadd(x, zeros_like(x)) = x for every scalar x.
C6_MapaddIdentity ==
    /\ (pc = "added" /\ args[1] = ZERO /\ args[2] # ZERO) => out = args[2]
    /\ (pc = "zadded" /\ args[1].k = "num") =>
          /\ args[2] = Num(0)
          /\ out = args[1]

\* mapadd(ZERO, ((1, None),)) = ((1, None),).
C6_Witness ==
    /\ pc = "added"
    /\ args = <<ZERO, Tup(<<Tup(<<Num(1), None>>)>>)>>
    /\ out = Tup(<<Tup(<<Num(1), None>>)>>)

RECURSIVE HoldsZERO(_)
HoldsZERO(v) == v = ZERO \/ \E i \in 1..Len(v.t) : HoldsZERO(v.t[i])

MismatchedKinds(x, y) == x # ZERO /\ y # ZERO /\ x.k # y.k

DifferentLengths(x, y) == x.k = "tup" /\ y.k = "tup" /\ Len(x.t) # Len(y.t)

\* C7 as stated: mapadd(x, y) ends in an error whenever y is ZERO (also when
\* x is ZERO too), whenever ZERO sits inside a tuple given as y, whenever x
\* and y are of mismatched kinds, whenever they are tuples of different
\* lengths.
C7_MapaddErrorsAsStated ==
    pc = "added" =>
      /\ args[2] = ZERO => IsErr(out)
      /\ (args[2].k = "tup" /\ HoldsZERO(args[2])) => IsErr(out)
      /\ MismatchedKinds(args[1], args[2]) => IsErr(out)
      /\ DifferentLengths(args[1], args[2]) => IsErr(out)

\* C7 (amended): as stated, except that a ZERO inside a tuple given as y is
\* an error only when x holds no ZERO; mapadd(ZERO, y) returns such a y.
C7_MapaddErrors ==
    pc = "added" =>
      /\ args[2] = ZERO => IsErr(out)
      /\ (args[2].k = "tup" /\ HoldsZERO(args[2]) /\ ~HoldsZERO(args[1])) => IsErr(out)
      /\ MismatchedKinds(args[1], args[2]) => IsErr(out)
      /\ DifferentLengths(args[1], args[2]) => IsErr(out)
      /\ (args[1] = ZERO /\ args[2].k = "tup" /\ HoldsZERO(args[2])) => out = args[2]

\* mapadd((1, 2), (1, ZERO)) is an error.
C7_Witness ==
    /\ pc = "added"
    /\ args = <<Tup(<<Num(1), Num(2)>>), Tup(<<Num(1), ZERO>>)>>
    /\ IsErr(out)

\* The values C8 speaks of: scalars, tuples of scalars, closures over a
\* top-level function with scalars stored, None and ZERO.
InRoundTripDomain(x) ==
    \/ x.k \in {"num", "None", "ZERO"}
    \/ x.k = "tup" /\ \A i \in 1..Len(x.t) : x.t[i].k = "num"
    \/ x.k = "clos" /\ x.fk \in {"func", "prim"} /\ \A i \in 1..Len(x.t) : x.t[i].k = "num"

\* C8: Jinv(J(x)) = x for scalars, tuples of scalars, closures over
\* top-level functions (the function and every stored argument restored,
\* as many stored arguments as before), None and ZERO.
C8_JinvJRoundTrip ==
    InRoundTripDomain(args[1]) =>
      /\ pc \in {"lifted", "unlifted"} => ~IsErr(out)
      /\ pc = "unlifted" =>
           /\ back = args[1]
           /\ Len(back.t) = Len(args[1].t)

\* A closure over f with one stored argument: J lifts f through transform
\* with nargs_closure = 1, Jinv finds f again through the primal of the
\* lifted function.
C8_Witness ==
    /\ pc = "unlifted"
    /\ args[1] = ClosureImpl(FunctionImpl(fname), <<Num(2)>>)
    /\ out.k = "clos" /\ out.rel = "JTAG" /\ out.f = "f" /\ out.t = <<Num(2)>>
    /\ <<"f", 1>> \in DOMAIN env.cache
    /\ back = args[1]

(***************************************************************************)
(* Free variables of a Lambda: the local symbols an expression reads, and  *)
(* whether each is a parameter or was assigned by an earlier binding.      *)
(***************************************************************************)
RECURSIVE LocalReads(_)
LocalReads(node) ==
    IF node.t = "Symbol" THEN (IF node.ns = "local" THEN {node} ELSE {})
    ELSE IF node.t = "Value" THEN {}
    ELSE UNION {LocalReads(node.sub[i]) : i \in 1..Len(node.sub)}

SeqRange(s) == {s[i] : i \in 1..Len(s)}

DefinedBefore(L, i) == SeqRange(L.args) \cup SeqRange(AllLhs(SubSeq(L.bindings, 1, i - 1), 1))

Closed(L) ==
    /\ \A i \in 1..Len(L.bindings) : LocalReads(L.bindings[i][2]) \subseteq DefinedBefore(L, i)
    /\ LocalReads(L.body) \subseteq DefinedBefore(L, Len(L.bindings) + 1)

\* C11: every local symbol the emitted backpropagator reads, in its zeros
\* bindings, its backward bindings and its return tuple, is one of its
\* parameters or the left-hand side of an earlier binding.
C11_NoFreeVariables ==
    pc = "transformed" => Closed(BackpFn)

\* A backpropagator that reads a captured tagged variable (in a zeros
\* binding) and calls a captured backpropagator closure.
C11_Witness ==
    /\ pc = "transformed"
    /\ \E i \in 1..Len(BackpFn.bindings) :
         /\ BackpFn.bindings[i][2].t = "Apply"
         /\ BackpFn.bindings[i][2].sub[1] = bsym("zeros_like")
    /\ \E i \in 1..Len(BackpFn.bindings) : \E p \in SeqRange(BackpFn.args) :
         /\ p.rel = "BPROP_CLOS"
         /\ p \in LocalReads(BackpFn.bindings[i][2])
    /\ Closed(BackpFn)

\* C12 as stated: when transform raises, global_env and root_globals hold
\* exactly the entries they held before the invocation.
C12_FailureLeavesEnvironment ==
    pc = "failed" =>
      /\ env.global_env = InitEnvGH(primal).global_env
      /\ env.root_globals = InitEnvGH(primal).root_globals

\* C13 as stated: for every meta-graph, a second generate_graph for the same
\* arguments returns the very Graph the first returned, and builds no Graph.
C13_SecondCallReturnsSameGraph ==
    \A i \in 1..Len(calls) : \A j \in (i + 1)..Len(calls) :
        (calls[i].mg = calls[j].mg /\ calls[i].args = calls[j].args
           /\ calls[i].err = "" /\ calls[j].err = "") =>
          (calls[j].r = calls[i].r /\ calls[j].built = 0)

\* The key under which a caching meta-graph files the Graph of these
\* arguments.
CacheKey(m, a) ==
    IF metagraphs[m].cls = "Elemwise" THEN Elemwise_sig(a)
    ELSE [i \in 1..Len(a) |-> build_type(a[i])]

CallsOf(m) == {i \in 1..Len(calls) : calls[i].mg = m}

\* C14: the caches of Elemwise and MultitypeGraph hold exactly the
\* signatures whose generation succeeded, each with the Graph that call
\* returned; a call that failed built nothing and left no entry, and a
\* later call with the same arguments generates, and fails, again.
C14_FailuresAreNotCached ==
    \A m \in DOMAIN metagraphs :
      metagraphs[m].cls \in {"Elemwise", "MultitypeGraph"} =>
        /\ DOMAIN metagraphs[m].cache =
             {CacheKey(m, calls[i].args) : i \in {j \in CallsOf(m) : calls[j].err = ""}}
        /\ \A i \in CallsOf(m) :
             IF calls[i].err = ""
             THEN metagraphs[m].cache[CacheKey(m, calls[i].args)] = calls[i].r
             ELSE /\ calls[i].built = 0
                  /\ CacheKey(m, calls[i].args) \notin DOMAIN metagraphs[m].cache
                  /\ \A j \in CallsOf(m) :
                       (j > i /\ calls[j].args = calls[i].args) =>
                         calls[j].err = calls[i].err

\* A Graph is cached, a generation then fails in the same meta-graph, and the
\* cached Graph is returned again; this for Elemwise and for MultitypeGraph.
C14_Witness ==
    /\ Len(calls) = 3
    /\ calls[1].mg = calls[2].mg /\ calls[2].mg = calls[3].mg
    /\ metagraphs[calls[1].mg].cls \in {"Elemwise", "MultitypeGraph"}
    /\ calls[1].err = "" /\ calls[2].err # ""
    /\ calls[3].args = calls[1].args /\ calls[3].r = calls[1].r
    /\ calls[3].built = 0

\* The symbols a call newly registered, and whether it kept every entry
\* there was.
NewKeys(old, new) == DOMAIN new \ DOMAIN old

Kept(old, new) == \A s \in DOMAIN old : s \in DOMAIN new /\ new[s] = old[s]

\* C15: a call of a gradient factory with an integer it was already called
\* with returns the object it returned then and leaves global_env and
\* root_globals as they are; a call with a new integer returns an object no
\* earlier call returned and registers it, and a backpropagator, under
\* symbols that were not registered before; no call overwrites an entry.
C15_FactoryCachesPerNargs ==
    [][Len(calls') = Len(calls) + 1 =>
         LET c == calls'[Len(calls')]
             same == {i \in 1..Len(calls) :
                        calls[i].fn = c.fn /\ calls[i].nargs = c.nargs}
         IN /\ Kept(env.global_env, env'.global_env)
            /\ Kept(env.root_globals, env'.root_globals)
            /\ same # {} =>
                 /\ \A i \in same : c.r = calls[i].r
                 /\ env'.global_env = env.global_env
                 /\ env'.root_globals = env.root_globals
            /\ same = {} =>
                 /\ ~IsErr(c.r)
                 /\ \A i \in 1..Len(calls) : calls[i].r # c.r
                 /\ RefOf(c.r) \in NewKeys(env.global_env, env'.global_env)
                 /\ \E s \in NewKeys(env.root_globals, env'.root_globals)
                            \cup NewKeys(env.global_env, env'.global_env) :
                      s.rel = "BPROP" /\ s.label = c.fn.f
    ]_vars

\* A factory was called with one integer, with another, and with the first
\* again.
C15_Witness ==
    /\ Len(calls) = 3
    /\ calls[1].fn = calls[2].fn /\ calls[2].fn = calls[3].fn
    /\ calls[1].nargs # calls[2].nargs /\ calls[3].nargs = calls[1].nargs
    /\ calls[3].r = calls[1].r /\ calls[2].r # calls[1].r
    /\ calls[1].fn.k = "func"

\* C16: evaluating the Graph of list_map on a function f and a list xs of
\* at least one element ends, within the fuel, with the list of the f(x) for
\* x in xs, f having been applied to the elements of xs, each once, in order.
C16_ListMapEvaluation ==
    (pc = "evaluated" /\ Len(args.xs) >= 1) =>
      /\ out.ok
      /\ out.v = [i \in 1..Len(args.xs) |-> MappedFn(args.f, args.xs[i])]
      /\ out.trace = args.xs

\* list_map of the increment over a list of three elements.
C16_Witness ==
    /\ pc = "evaluated"
    /\ args = [f |-> "inc", xs |-> <<3, 1, 1>>]
    /\ out = [ok |-> TRUE, v |-> <<4, 2, 2>>, trace |-> <<3, 1, 1>>]

\* C17 as stated: the Graphs a call of list_map builds hold exactly one
\* condition graph and one body graph, and both are flagged core.
C17_CondAndBodyAreCore ==
    \A i \in 1..Len(calls) :
      (calls[i].mg = "list_map" /\ calls[i].err = "") =>
        LET built == calls[i].r..(calls[i].r + calls[i].built - 1)
        IN /\ Cardinality({g \in built : graphs[g].name = "cond"}) = 1
           /\ Cardinality({g \in built : graphs[g].name = "body"}) = 1
           /\ \A g \in built : graphs[g].name \in {"cond", "body"} => graphs[g].core

\* How Elemwise treated a parameter: the node given to array_map, with the
\* distribute and the to_array taken off.
IsWrappedBy(node, fn) == node.k = "Apply" /\ node.ins[1] = Constant(fn)

Undistributed(node) == IF IsWrappedBy(node, "distribute") THEN node.ins[2] ELSE node

OrigShape(av) == IF av.k = "Array" THEN av.shape ELSE <<>>

\* The broadcast of the shapes of the array arguments.
FinalShape(a) ==
    Elemwise_final_shape(SelectSeq([i \in 1..Len(a) |->
                                      [array |-> a[i].k = "Array", shape |-> OrigShape(a[i])]],
                                   LAMBDA x : x.array)).r

ArrayCalls ==
    {i \in 1..Len(calls) :
        /\ metagraphs[calls[i].mg].cls = "Elemwise"
        /\ calls[i].err = ""
        /\ \E j \in 1..Len(calls[i].args) : calls[i].args[j].k = "Array"}

\* What holds of every Graph of Elemwise for arguments with an array: its
\* output is array_map of the scalar primitive, or of the Elemwise when it
\* has none, and of one node per parameter, in order; that node is the
\* parameter, in to_array exactly when the argument is no array.
ElemwiseShape(i, Distributed(_, _)) ==
    LET a == calls[i].args
        g == calls[i].r
        o == graphs[g].output
        self == metagraphs[calls[i].mg]
    IN /\ IsWrappedBy(o, "array_map")
       /\ Len(o.ins) = Len(a) + 2
       /\ o.ins[2] = Constant(IF self.scalar_op # "" THEN self.scalar_op ELSE self.name)
       /\ \A j \in 1..Len(a) :
            LET t == o.ins[j + 2]
                p == Undistributed(t)
            IN /\ IsWrappedBy(p, "to_array") <=> a[j].k # "Array"
               /\ (IF IsWrappedBy(p, "to_array") THEN p.ins[2] ELSE p) = Parameter(g, j)
               /\ IsWrappedBy(t, "distribute") <=> Distributed(a, j)
               /\ IsWrappedBy(t, "distribute") =>
                    /\ Len(t.ins) = 3
                    /\ IF IsDynamic(FinalShape(a))
                       THEN t.ins[3].k = "Apply"
                       ELSE t.ins[3] = ConstantOf(FinalShape(a))

\* C18 as stated: distribute wraps exactly the parameters whose shape
\* differs from the broadcast shape.
C18_ElemwiseAsStated ==
    \A i \in ArrayCalls :
        ElemwiseShape(i, LAMBDA a, j : OrigShape(a[j]) # FinalShape(a))

\* C18: distribute wraps exactly the parameters whose shape differs from the
\* broadcast shape when that shape has no unknown dimension, and every
\* parameter when it has one, the shape then being a node computed from the
\* shapes of the arguments.
C18_ElemwiseGraph ==
    \A i \in ArrayCalls :
        ElemwiseShape(i, LAMBDA a, j :
            IsDynamic(FinalShape(a)) \/ OrigShape(a[j]) # FinalShape(a))

\* add on a scalar and an array of shape (3,), and truediv, which has no
\* scalar primitive, on two arrays of unknown length.
C18_Witness ==
    /\ Len(calls) = 2
    /\ calls[1].mg = "add"
    /\ calls[1].args = <<AbstractScalar("Int"), AbstractArray(<<3>>)>>
    /\ graphs[calls[1].r].output =
         apply(Constant("array_map"),
               <<Constant("scalar_add"),
                 apply(Constant("distribute"),
                       <<apply(Constant("to_array"), <<Parameter(calls[1].r, 1)>>),
                         ConstantOf(<<3>>)>>),
                 Parameter(calls[1].r, 2)>>)
    /\ calls[2].mg = "truediv"
    /\ calls[2].args = <<AbstractArray(<<ANYTHING>>), AbstractArray(<<ANYTHING>>)>>
    /\ calls[2].err = ""
    /\ graphs[calls[2].r].output.ins[2] = Constant("__truediv__")

\* The entries of the MultitypeGraph whose pattern has the length of the
\* types and accepts each of them.
Matching(entries, types) ==
    {i \in 1..Len(entries) :
        /\ Len(entries[i].sig) = Len(types)
        /\ \A j \in 1..Len(types) : issubtype(types[j], entries[i].sig[j])}

\* C19: a dispatch returns the function of the earliest registered entry
\* among those that match, and raises GraphGenerationError, returning no
\* function, when none matches.
C19_FirstMatchingEntry ==
    pc = "dispatched" =>
      LET ms == Matching(metagraphs["exp"].entries, args)
      IN IF ms = {}
         THEN out = [fn |-> "", err |-> "GraphGenerationError"]
         ELSE /\ out.err = ""
              /\ \E i \in ms : /\ \A k \in ms : i <= k
                               /\ out.fn = metagraphs["exp"].entries[i].fn

\* Number was registered before Int, a pattern of two types between them: an
\* Int is dispatched to the function registered for Number.
C19_Witness ==
    /\ pc = "dispatched"
    /\ metagraphs["exp"].entries =
         <<[sig |-> <<"Number">>, fn |-> "fn1"],
           [sig |-> <<"Int", "Int">>, fn |-> "fn2"],
           [sig |-> <<"Int">>, fn |-> "fn3"]>>
    /\ args = <<"Int">>
    /\ out = [fn |-> "fn1", err |-> ""]

\* The sensitivity df calls the backpropagator on: its last parameter when
\* it takes one, else 1 cast to the type of the output.
SensOf(a) == IF a.sens_param THEN Sensitivity ELSE NumValue(1)

\* C20: df calls the backpropagator once, on the sensitivity, and returns
\* the gradients of all the inputs, in order, when get_all is set, and the
\* gradient of the first input when not; the element at index 0 of the
\* backpropagator's result is not returned.
C20_GradientsReturned ==
    pc = "called" =>
      /\ out.ok
      /\ out.trace = <<SensOf(args)>>
      /\ IF args.get_all
         THEN /\ out.v = [i \in 1..args.n |-> Gradient(i, SensOf(args))]
              /\ \A i \in 1..Len(out.v) : out.v[i].i # 0
         ELSE /\ out.v = Gradient(1, SensOf(args))
              /\ out.v.i # 0

\* A df with get_all for a function of three parameters was called, and one
\* without get_all was built before it.
C20_Witness ==
    /\ pc = "called"
    /\ args = [n |-> 3, sens_param |-> TRUE, get_all |-> TRUE, apply_j |-> FALSE]
    /\ out.ok
    /\ out.v = <<Gradient(1, Sensitivity), Gradient(2, Sensitivity),
                 Gradient(3, Sensitivity)>>
    /\ Len(graphs) = 4
    /\ graphs[2].output.ins[1] = Constant("tuple_getitem")

\* The applications of mapadd in a node, and in the right-hand sides of
\* bindings.
RECURSIVE MapaddSites(_)
RECURSIVE MapaddSitesOf(_, _)
MapaddSites(node) ==
    (IF IsMapadd(node) THEN 1 ELSE 0)
    + MapaddSitesOf([i \in 1..Len(node.sub) |-> <<node, node.sub[i]>>], 1)

MapaddSitesOf(bindings, i) ==
    IF i > Len(bindings) THEN 0
    ELSE MapaddSites(bindings[i][2]) + MapaddSitesOf(bindings, i + 1)

\* f(y) = y * y, for a function of any number of parameters and y any of
\* them.
IsSquare(p) ==
    \E n \in 1..Len(ParamNames) : \E i \in 1..n :
        p = CallLambda(n, <<Apply(bsym("multiply"), <<Params(n)[i], Params(n)[i]>>)>>)

\* C22 as stated: the backward pass of f(y) = y * y holds two applications
\* of mapadd.
C22_TwoMapaddSites ==
    (pc = "transformed" /\ IsSquare(primal)) =>
        MapaddSitesOf(BackpFn.bindings, 1) = 2

\* C22: the backward pass of f(y) = y * y makes two sensitivity variables
\* of y and holds one application of mapadd: the saved backpropagator gives
\* the first contribution to the first of them and the second to a
\* temporary, and the one mapadd adds the two into the second, which is the
\* gradient returned for y.
C22_TwoContributionsOneMapadd ==
    (pc = "transformed" /\ IsSquare(primal)) =>
      LET b == result.backward
          y == primal.bindings[1][2].sub[2]
      IN /\ MapaddSitesOf(BackpFn.bindings, 1) = 1
         /\ Len(b) = 2
         /\ b[1][1].t = "Tuple" /\ Len(b[1][1].sub) = 3
         /\ ~IsMapadd(b[1][2])
         /\ b[1][1].sub[2] = Symbol(y.label, "local", 1, "SENS")
         /\ b[1][1].sub[3].rel = "TMP_SENS"
         /\ b[2][1] = Symbol(y.label, "local", 2, "SENS")
         /\ IsMapadd(b[2][2])
         /\ {b[2][2].sub[2], b[2][2].sub[3]} = {b[1][1].sub[2], b[1][1].sub[3]}
         /\ grad.sensitivity_map[y] = b[2][1]
         /\ \E i \in 1..Len(BackpFn.body.sub) :
              LET e == BackpFn.body.sub[i]
              IN e = b[2][1] \/ \E j \in 1..Len(e.sub) : e.sub[j] = b[2][1]

C22_Witness ==
    /\ pc = "transformed"
    /\ primal = CallLambda(1, <<Apply(bsym("multiply"), <<lsym("x"), lsym("x")>>)>>)
    /\ nargs_closure = 0
    /\ MapaddSitesOf(result.backward, 1) = 1

\* The positions of a batch that repeat a variable of an earlier position,
\* in increasing order.
RECURSIVE Repeats(_, _)
Repeats(batch, i) ==
    IF i > Len(batch) THEN <<>>
    ELSE (IF batch[i].t = "Symbol" /\ \E j \in 1..(i - 1) : batch[j] = batch[i]
          THEN <<i>> ELSE <<>>) \o Repeats(batch, i + 1)

\* The sensitivity a variable holds when the repeat at position
\* Repeats(batch, 1)[k] is reached: the left-hand side of the trailing
\* binding of the repeat before it, or else the element the first
\* occurrence has in the tuple of the main binding.
PreviousSens(batch, b, k) ==
    LET R == Repeats(batch, 1)
        earlier == {m \in 1..(k - 1) : batch[R[m]] = batch[R[k]]}
    IN IF earlier # {}
       THEN b[1 + CHOOSE m \in earlier : \A n \in earlier : n <= m][1]
       ELSE b[1][1].sub[CHOOSE j \in 1..Len(batch) :
                            /\ batch[j] = batch[R[k]]
                            /\ \A n \in 1..(j - 1) : batch[n] # batch[j]]

\* The repeats of a batch each have a fresh temporary in the tuple of the
\* main binding and, in their order, a trailing binding of a fresh
\* sensitivity variable; Operands(t, s) are the operands of its mapadd,
\* given the temporary t and the previous sensitivity s.
RepeatsMerged(Operands(_, _)) ==
    LET b == result.backward
        R == Repeats(args, 1)
        lhs == b[1][1].sub
    IN /\ Len(b) = 1 + Len(R)
       /\ Len(lhs) = Len(args)
       /\ \A k \in 1..Len(R) :
            /\ lhs[R[k]].rel = "TMP_SENS"
            /\ \A j \in 1..Len(lhs) : j # R[k] => lhs[j] # lhs[R[k]]
            /\ b[1 + k][2] = Apply(bsym("mapadd"),
                                   Operands(lhs[R[k]], PreviousSens(args, b, k)))
            /\ b[1 + k][1].rel = "SENS"
            /\ b[1 + k][1].label = args[R[k]].label
            /\ \A v \in DOMAIN out.sensitivity_map :
                 out.sensitivity_map[v] # b[1 + k][1]
            /\ \A j \in 1..Len(lhs) : lhs[j] # b[1 + k][1]
            /\ \A m \in 1..Len(R) : m # k => b[1 + m][1] # b[1 + k][1]
            /\ (\A m \in (k + 1)..Len(R) : args[R[m]] # args[R[k]])
                  => grad.sensitivity_map[args[R[k]]] = b[1 + k][1]

SensFirst(t, s) == <<s, t>>

TempFirst(t, s) == <<t, s>>

SourceBindings ==
    IF primal.isLet THEN primal.bindings
    ELSE <<<<Symbol("TMP_LET", "local", 1, ""), primal.body>>>>

\* The labels of the symbols of relation rel in a node.
RECURSIVE LabelsIn(_, _)
LabelsIn(node, rel) ==
    (IF node.t = "Symbol" /\ node.rel = rel THEN {node.label} ELSE {})
    \cup UNION {LabelsIn(node.sub[i], rel) : i \in 1..Len(node.sub)}

\* A binding that merges the temporary of a repeated variable.
IsTrailing(b) ==
    IsMapadd(b[2]) /\ b[2].sub[2].t = "Symbol" /\ b[2].sub[2].rel = "TMP_SENS"

\* The source bindings whose sensitivity backward binding b accumulates.
Origins(b) ==
    LET value == IF IsMapadd(b[2]) THEN b[2].sub[3] ELSE b[2]
        read == LabelsIn(value, "SENS")
    IN {j \in 1..Len(SourceBindings) :
          read # {} /\ read \subseteq LabelsIn(SourceBindings[j][1], "")}

IsZeroInit(b) == b[2].t = "Apply" /\ b[2].sub[1] = bsym("zeros_like")

\* When the zero initialisation of variable s is asked for: rho asks for
\* the members without sensitivity of the left-hand side of a binding, the
\* later binding first and the members in their order; transform then asks
\* for the parameters without sensitivity, in their order.
DemandRank(s) ==
    LET n == Len(SourceBindings)
    IN IF \E i \in 1..Len(ParamNames) : ParamNames[i] = s.label
       THEN 2 * n + CHOOSE i \in 1..Len(ParamNames) : ParamNames[i] = s.label
       ELSE CHOOSE r \in 0..(2 * n) :
              \E j \in 1..n : \E p \in 1..Len(SourceBindings[j][1].sub) :
                 /\ SourceBindings[j][1].sub[p].label = s.label
                 /\ r = 2 * (n - j) + p - 1

\* C24: the forward bindings stand in the order of the source bindings,
\* the closure binding after them; the backward bindings stand in the
\* reverse order of the source bindings they backpropagate, each followed
\* by the merges of its repeated variables, and no source binding that
\* received a sensitivity is left out; the zero initialisations stand in
\* the order they were asked for, and in the body of the backpropagator
\* all of them precede all backward bindings.
C24_BindingOrder ==
    pc = "transformed" =>
      LET src == SourceBindings
          fw == result.forward
          bw == result.backward
          zs == grad.zeros
          all == BackpFn.bindings
          mains == {i \in 1..Len(bw) : ~IsTrailing(bw[i])}
      IN /\ Len(fw) = Len(src) + 1
         /\ \A j \in 1..Len(src) :
              LabelsIn(fw[j][1], "JTAG") = LabelsIn(src[j][1], "")
         /\ fw[Len(fw)][2].t = "Closure"
         /\ bw # <<>> => 1 \in mains
         /\ \A i \in mains : Cardinality(Origins(bw[i])) = 1
         /\ \A i \in mains : \A k \in mains :
              i < k => \A j \in Origins(bw[i]) : \A m \in Origins(bw[k]) : j > m
         /\ \A j \in 1..Len(src) :
              (/\ src[j][2].t # "Value"
               /\ sensitivity_value(grad, src[j][1]) # ValueZERO)
                 => \E i \in mains : j \in Origins(bw[i])
         /\ \A i \in 1..Len(zs) :
              /\ IsZeroInit(zs[i])
              /\ \A k \in (i + 1)..Len(zs) : DemandRank(zs[i][1]) < DemandRank(zs[k][1])
         /\ all = zs \o bw
         /\ \A i \in 1..Len(all) : \A k \in 1..Len(all) :
              (IsZeroInit(all[i]) /\ ~IsZeroInit(all[k])) => i < k

\* Two source bindings both backpropagated, the later first, and two
\* parameters initialised to zero.
C24_Witness ==
    /\ pc = "transformed"
    /\ Len(primal.args) = 3
    /\ Len(primal.bindings) = 2
    /\ Len(result.backward) >= 2
    /\ Origins(result.backward[1]) = {2}
    /\ Origins(result.backward[Len(result.backward)]) = {1}
    /\ Len(grad.zeros) = 3
    /\ grad.zeros[1][1].label = "u2"
    /\ grad.zeros[2][1].label = "y"

\* The symbols a left-hand side binds.
RECURSIVE SymbolsIn(_)
SymbolsIn(node) ==
    IF node.t = "Symbol" THEN {node}
    ELSE UNION {SymbolsIn(node.sub[i]) : i \in 1..Len(node.sub)}

\* C25: the last forward binding of the augmented function binds the
\* closure of the backpropagator; the variables it stores are, in the same
\* order, the leading parameters of the backpropagator, which has one more
\* parameter, the sensitivity of the output, last; each stored variable is
\* a tagged variable or a backpropagator variable, and is a parameter of
\* the augmented function or bound by a forward binding before the closure,
\* no variable being stored twice.
C25_ClosureStoresBpropVars ==
    pc = "transformed" =>
      LET fw == AugmFn.bindings
          last == fw[Len(fw)]
          stored == ArgsOf(last[2])
          bound == UNION {SymbolsIn(fw[j][1]) : j \in 1..(Len(fw) - 1)}
      IN /\ fw = result.forward
         /\ last[2].t = "Closure"
         /\ last[2].sub[1] = result.backp_sym
         /\ \A j \in 1..(Len(fw) - 1) :
              fw[j][2].t = "Closure" => fw[j][2].sub[1] # result.backp_sym
         /\ AugmFn.body = Tuple(<<AugmFn.body.sub[1], last[1]>>)
         /\ stored = grad.bprop_variables
         /\ BackpFn.args = Append(stored, result.out_sen)
         /\ \A i \in 1..Len(stored) : stored[i] # result.out_sen
         /\ \A i \in 1..Len(stored) : \A k \in 1..Len(stored) :
              stored[i] = stored[k] => i = k
         /\ \A i \in 1..Len(stored) :
              /\ stored[i].t = "Symbol"
              /\ stored[i].rel \in {"JTAG", "BPROP_CLOS"}
              /\ \/ \E a \in 1..Len(AugmFn.args) : AugmFn.args[a] = stored[i]
                 \/ stored[i] \in bound
              /\ stored[i].rel = "BPROP_CLOS" =>
                   \E j \in 1..(Len(fw) - 1) :
                      /\ fw[j][1].t = "Tuple"
                      /\ fw[j][1].sub[2] = stored[i]
                      /\ fw[j][2].t = "Apply"

\* A closure that stores a backpropagator variable, the tagged variable of
\* a parameter and that of a let-bound variable.
C25_Witness ==
    /\ pc = "transformed"
    /\ LET stored == ArgsOf(AugmFn.bindings[Len(AugmFn.bindings)][2])
       IN /\ \E i \in 1..Len(stored) : stored[i].rel = "BPROP_CLOS"
          /\ \E i \in 1..Len(stored) :
               stored[i].rel = "JTAG" /\ stored[i].label \in {"x", "y", "z"}
          /\ \E i \in 1..Len(stored) :
               stored[i].rel = "JTAG" /\ stored[i].label \in {"u1", "u2"}

\* C26: no transform starts for a (function, nargs_closure) pair whose
\* transform is in progress.
C26_NoReentry ==
    \A i \in 1..Len(calls) : \A j \in 1..Len(calls) :
        CacheKeyOf(calls[i]) = CacheKeyOf(calls[j]) => i = j

\* C27: evaluating the graph of list_map never applies next to an iterator
\* for which hasnext does not hold: no element is read at or past the end
\* of its list.
C27_NextOnlyWhereHasnext ==
    pc = "evaluated" => back.err # "IndexError"

\* Whether a phase other than 'renormalize' reported a change in lap n.
ChangedIn(n) == \E k \in 1..Len(calls) : calls[k].lap = n /\ calls[k].changed

\* The phases run so far are those of self.phases, in their order, lap
\* after lap.
InDeclarationOrder ==
    \A k \in 1..Len(calls) :
        IF k = 1 THEN calls[k].lap = 1 /\ calls[k].i = 1
        ELSE \/ calls[k].lap = calls[k - 1].lap /\ calls[k].i = calls[k - 1].i + 1
             \/ /\ calls[k].lap = calls[k - 1].lap + 1
                /\ calls[k].i = 1
                /\ calls[k - 1].i = Len(args.self.phases)

OptimizerLaps ==
    /\ InDeclarationOrder
    /\ \A n \in 1..(result.lap - 1) : ChangedIn(n)
    /\ (args.self.run_only_once \/ Len(args.self.phases) = 1) => result.lap <= 1
    /\ result.keep_roots = (IF pc = "returned" THEN 1 ELSE 0)
    /\ pc = "returned" =>
         /\ result.lap >= 1
         /\ Len(calls) = result.lap * Len(args.self.phases)
         /\ ~args.self.run_only_once => ~ChangedIn(result.lap)

\* C29: step runs the phases in the order of their declaration, lap after
\* lap; a lap follows only a lap in which a phase other than 'renormalize'
\* reported a change, and step returns after the first lap without one;
\* with run_only_once, or with one phase, there is one lap; keep_roots is
\* called once, after the last lap; and step comes to an end once the
\* phases report no more changes.
C29_OptimizerStep ==
    /\ []OptimizerLaps
    /\ <>(pc \in {"returned", "AssertionError"})

\* Three laps: two with a change, the last without.
C29_Witness ==
    /\ pc = "returned"
    /\ result.lap = 3
    /\ Len(args.self.phases) = 2
    /\ result.keep_roots = 1

\* A graph that applies an operation outside the whitelist or carries a
\* value of a Class type.
Rejected(g) ==
    \/ \E op \in g.ops : op \notin test_whitelist
    \/ \E t \in TypesOf(g) : t.kind = "Class"

\* A graph in which only the operations on records and the Class types
\* stand against validation.
OnlyClassRelated(g) ==
    /\ \A op \in g.ops : op \in test_whitelist \cup {"make_record", "getattr"}
    /\ \A t \in TypesOf(g) : t.kind \in {"Int", "Class"}

Current == args.steps[Len(calls) + 1]

\* Step a returned before step b did, b being at position k of the log.
Before(a, k) == \E j \in 1..(k - 1) : calls[j] = a

\* C28: wrap returns only with the flags erase_class and erase_tuple set,
\* and erase_tuple only with the flag erase_class set: wherever wrap has
\* returned, erase_tuple returned before it and erase_class before that
\* erase_tuple, and the output is the wrapped one; a wrap or an erase_tuple
\* without its flags ends the run in AssertionError, the state left without
\* the output or the flag of that step.
C28_WrapNeedsEraseSteps ==
    /\ \A k \in 1..Len(calls) :
         /\ calls[k] = "erase_tuple" => Before("erase_class", k)
         /\ calls[k] = "wrap" =>
              \E j \in 1..(k - 1) :
                 calls[j] = "erase_tuple" /\ Before("erase_class", j)
    /\ result.erase_tuple => result.erase_class
    /\ result.output.wrapped => (result.erase_class /\ result.erase_tuple)
    /\ (pc = "run" /\ Len(calls) < Len(args.steps)) =>
         /\ (Current = "wrap" /\ ~(result.erase_class /\ result.erase_tuple))
               => run_step(Current, result) = Raise(result, "AssertionError")
         /\ (Current = "erase_tuple" /\ ~result.erase_class)
               => run_step(Current, result) = Raise(result, "AssertionError")
    /\ (pc = "failed" /\ result.error = "AssertionError") =>
         /\ Current \in {"wrap", "erase_tuple"}
         /\ Current = "wrap" =>
              ~(result.erase_class /\ result.erase_tuple) /\ ~result.output.wrapped
         /\ Current = "erase_tuple" => ~result.erase_class /\ ~result.erase_tuple

\* A run that reached a wrapped output.
C28_Witness ==
    /\ pc = "done"
    /\ calls = <<"erase_class", "erase_tuple", "debug_export", "wrap">>
    /\ result.output.wrapped
    /\ args.input.params = <<AbstractT("Class", 2)>>
    /\ result.output.orig_arg_t = <<AbstractT("Class", 2)>>

\* floor(x / y): the integer q with x = q * y + r, r between 0 and y, y
\* excluded.
Floor(x, y) ==
    CHOOSE q \in (-MaxInt)..MaxInt :
        \E r \in (-MaxInt)..MaxInt :
            /\ x = q * y + r
            /\ IF y > 0 THEN 0 <= r /\ r < y ELSE y < r /\ r <= 0

\* C30: int_floordiv(x, y) is floor(x / y) for all x and all y other than
\* zero.
C30_FloordivIsFloor ==
    pc = "divided" => out = Floor(args[1], args[2])

====
